---- MODULE Spec2Model ----
(***************************************************************************)
(* State-machine model of the real-time engine of nestjs-prisma-aws-starter *)
(*   - QueueGateway          src/src/lib/queue/queue.gateway.ts             *)
(*   - ConversationService   src/unnamed/part_001 (lines 154-847)           *)
(* Every await of the source is a suspension point: the code between two   *)
(* awaits is one atomic action, and a store access takes effect in the     *)
(* action that resumes from it.                                            *)
(***************************************************************************)
EXTENDS Integers, Sequences, FiniteSets, TLC

\* ------------------------------------------------------------------ bounds
\* Number of transport connections of the gateway specification.
MaxConns == 3
\* Number of connections that issue conversation events.
MaxSessions == 2
\* Number of conversation rows the store creates in one run.
MaxConvs == 2
\* Pagination inputs: rows matching the caller's filter, dto.limit, dto.page.
MaxTotal == 45
MaxLimit == 20
MaxPage == 4
\* Number of notification calls of one run; each creates at most one record.
MaxCalls == 2
\* Messages of the conversation whose unreadCount is derived.
MaxMsgs == 3
\* Messages of the conversation whose history is paged.
MaxHistory == 7
\* Conversation rows of the table a search runs over.
MaxRows == 2

\* ------------------------------------------------------------- value sets
Null == "null"

\* Rows of the user table (the store is read-only for this core).
ExistingUsers == {"alice", "bob", "carol"}
\* A well-formed id that matches no row of the user table.
GhostUser == "ghost"
UserIds == ExistingUsers \cup {GhostUser}

Conns == 1..MaxConns
Sessions == {c \in Conns : c <= MaxSessions}
ConvIds == 1..MaxConvs

\* Credentials a client can present.  "bad" fails jwtService.verify (bad
\* signature or expired), "nosub" verifies to a payload without subject, any
\* other token verifies to a payload whose subject is the token's name.
JWTs == {"bad", "nosub"} \cup UserIds

\* client.handshake: the authorization header and the auth payload's token.
\* A header is either absent, the raw credential or "Bearer <credential>".
NoHeader == [bearer |-> FALSE, jwt |-> Null]
Headers == {NoHeader} \cup [bearer : BOOLEAN, jwt : JWTs]
\* With a header present the auth token is never read: one other token stands
\* for all of them there.
Handshakes ==
    {hs \in [authorization : Headers, token : {Null} \cup JWTs] :
        hs.authorization = NoHeader \/ hs.token \in {Null, "bad"}}

\* client.data before the handshake binds it
NoData == [userId |-> Null, user |-> Null]

\* The data of a response envelope, one shape for every response: the user of
\* the handshake's success, a conversation summary (conv, participant, status),
\* an action tag, a page (items, total).  conv = 0 stands for "no conversation".
NoPayload ==
    [user |-> Null, conv |-> 0, participant |-> Null, status |-> Null,
     action |-> Null, items |-> {}, total |-> 0]
NoEvent == [ev |-> "none", success |-> FALSE, message |-> Null, data |-> NoPayload]

VARIABLES
    conn,        \* conn[c]: "new" (not yet connected), "open", "closed"
    token,       \* the credential handleConnection extracted from client.handshake
    hpc,         \* position of handleConnection(c): "idle", "lookup", "done"
    payload,     \* handleConnection's local `payload` (its subject), kept over the await
    data,        \* client.data: [userId, user]
    clients,     \* QueueGateway.clients: Map<userId, Set<Socket>>
    rooms,       \* socket.io rooms joined with client.join(userId)
    sent,        \* last event the server emitted toward c for c's own operation
    recv,        \* last event c actually received (emits to a closed socket are dropped)
    trace,       \* effects of handleConnection / handleDisconnect on c, in program order
    convs,       \* privateConversation table: id -> [initiatorId, receiverId, status]
    nextId,      \* the id the store gives the next created conversation
    call,        \* the ConversationService handler running on c, its position and locals
    ret,         \* what c's latest handler returned
    push,        \* the emitToUserFirstSocket call of c's latest handler
    ctrace,      \* store accesses and emits of c's latest handler, in program order
    lastInit,    \* the latest finished handler when it was an initiate, and the one before
    pg,          \* one loadConversations query: its dto, the size of the table, its result
    roles,       \* user.role of every row of the user table
    notes,       \* notification table: id -> [users: the recipients created with it]
    nextNote,    \* the id the store gives the next created notification
    ncall,       \* the notification calls: position, locals and outcome of each
    got,         \* got[c]: the notificationId of every payload socket c received
    ur,          \* one unreadCount derivation: the requester, the messages, the count
    hist,        \* one loadSingleConversation message query: its dto, the history, its page
    srch         \* one loadConversations query with a search term: its table and result

gwVars == <<conn, token, hpc, payload, data, clients, rooms, trace>>
evVars == <<sent, recv>>
convVars == <<convs, nextId, call, ret, push, ctrace, lastInit>>
pageVars == <<pg>>
notifyVars == <<roles, notes, nextNote, ncall, got>>
readVars == <<ur, hist, srch>>
\* What the gateway's lifecycle hooks and the conversation handlers never touch.
sideVars == <<pageVars, notifyVars, readVars>>
vars == <<gwVars, evVars, convVars, pageVars, notifyVars, readVars>>

\* ------------------------------------------------------ response envelopes
\* errorResponse(null, message) / successResponse(data)
errorResponse(message) == [success |-> FALSE, message |-> message, data |-> NoPayload]
successResponse(d) == [success |-> TRUE, message |-> Null, data |-> d]
\* An envelope emitted (or returned) under an event name.
event(name, env) ==
    [ev |-> name, success |-> env.success, message |-> env.message, data |-> env.data]
\* successResponse(user) of the handshake
userPayload(u) == [NoPayload EXCEPT !.user = u]

\* ------------------------------------------------------- ConnectionRegistry
\* this.clients.get(userId) || new Set()
getClients(reg, userId) == IF userId \in DOMAIN reg THEN reg[userId] ELSE {}

\* set = get(userId) ?? new Set(); set.add(client); this.clients.set(userId, set)
subscribeClient(reg, userId, client) ==
    [u \in (DOMAIN reg) \cup {userId} |->
        IF u = userId THEN getClients(reg, userId) \cup {client} ELSE reg[u]]

\* A faulty unsubscribe: the user's whole entry is dropped, whatever other
\* sockets it still holds.
unsubscribeClientDropsUser(reg, userId, client) ==
    [u \in (DOMAIN reg) \ {userId} |-> reg[u]]

\* A faulty unsubscribe: the key stays when its Set has become empty.
unsubscribeClientKeepsKey(reg, userId, client) ==
    IF userId \notin DOMAIN reg THEN reg ELSE [reg EXCEPT ![userId] = @ \ {client}]

\* set = get(userId); if (!set) return; set.delete(client);
\* if (set.size === 0) this.clients.delete(userId)
unsubscribeClient(reg, userId, client) ==
    IF userId \notin DOMAIN reg THEN reg
    ELSE IF reg[userId] \ {client} = {}
         THEN [u \in (DOMAIN reg) \ {userId} |-> reg[u]]
         ELSE [reg EXCEPT ![userId] = @ \ {client}]

\* client.join(room): socket.io adds a connected socket to the room; on a
\* socket that has closed the call changes nothing.  On close socket.io takes
\* the socket out of every room.
joinRoom(rm, room, client, isOpen) ==
    IF isOpen THEN [rm EXCEPT ![room] = @ \cup {client}] ELSE rm
leaveAll(rm, client) == [r \in DOMAIN rm |-> rm[r] \ {client}]

\* ------------------------------------------------------------------ AuthGate
\* auth = headers.authorization || handshake.auth?.token; null when absent,
\* "Bearer x" is split to x, anything else is taken as it is.
extractToken(hs) ==
    LET auth == IF hs.authorization # NoHeader THEN hs.authorization
                ELSE [bearer |-> FALSE, jwt |-> hs.token]
    IN  auth.jwt

\* jwtService.verify: throws on a bad signature or an expired token.
verifyThrows(tok) == tok = "bad"
\* payload.sub of a verified token
payloadSub(tok) == IF tok = "nosub" THEN Null ELSE tok

\* prisma.client.user.findUnique({ where: { id } })
findUniqueUser(id) == IF id \in ExistingUsers THEN id ELSE Null

\* A faulty delivery: an emit reaches a socket that has closed.
deliverAlways(rc, c, e, isOpen) == [rc EXCEPT ![c] = e]

\* Delivery of an emit toward socket c: a closed socket receives nothing.
deliver(rc, c, e, isOpen) == IF isOpen THEN [rc EXCEPT ![c] = e] ELSE rc

\* No handler has run on any connection; the conversation table is empty.
NoCall == [op |-> "none", pc |-> "idle", user |-> Null, target |-> Null, cid |-> 0,
           other |-> Null, status |-> Null, items |-> {}, total |-> 0]
NoPush == [to |-> Null, ev |-> "none", data |-> NoPayload]
\* a, b: caller and target; conv: the id returned (0: the call failed); created:
\* the call created a row; prev: the id returned by the initiate for the same
\* pair that finished just before this one was sent (0: there was none);
\* swapped: that one had caller and target the other way round.
NoInit == [a |-> Null, b |-> Null, conv |-> 0, created |-> FALSE, prev |-> 0,
           swapped |-> FALSE]

ConvInit ==
    /\ convs = [i \in {} |-> NoData]
    /\ nextId = 1
    /\ call = [c \in Conns |-> NoCall]
    /\ ret = [c \in Conns |-> NoEvent]
    /\ push = [c \in Conns |-> NoPush]
    /\ ctrace = [c \in Conns |-> << >>]
    /\ lastInit = NoInit

\* The gateway after construction: no socket has connected yet.
GatewayInit ==
    /\ conn = [c \in Conns |-> "new"]
    /\ token = [c \in Conns |-> Null]
    /\ hpc = [c \in Conns |-> "idle"]
    /\ payload = [c \in Conns |-> Null]
    /\ data = [c \in Conns |-> NoData]
    /\ clients = [u \in {} |-> {}]
    /\ rooms = [u \in UserIds |-> {}]
    /\ sent = [c \in Conns |-> NoEvent]
    /\ recv = [c \in Conns |-> NoEvent]
    /\ trace = [c \in Conns |-> << >>]

\* A faulty handleDisconnect: the socket is never unregistered.
handleDisconnectClientsNever(reg, d, c) == reg

\* handleDisconnect(client): unregisters only a socket that carries a userId.
handleDisconnectClients(reg, d, c) ==
    IF d[c].userId # Null THEN unsubscribeClient(reg, d[c].userId, c) ELSE reg

handleDisconnectTrace(tr, d, c) ==
    IF d[c].userId # Null THEN Append(Append(tr, "unsubscribe"), "leave")
    ELSE Append(tr, "disconnect_unknown")

\* disconnectWithError(client, message) on socket c: emitError, then
\* client.disconnect(true), which closes an open socket; on a closed socket
\* disconnect is a no-op.  The close runs handleDisconnect synchronously when
\* the framework has bound it to the socket (hooked), which it does once the
\* synchronous part of handleConnection has returned: a rejection before the
\* await closes the socket without handleDisconnect.
disconnectWithError(c, message, wasOpen, hooked) ==
    /\ sent' = [sent EXCEPT ![c] = event("error", errorResponse(message))]
    /\ recv' = deliver(recv, c, event("error", errorResponse(message)), wasOpen)
    /\ conn' = [conn EXCEPT ![c] = "closed"]
    /\ hpc' = [hpc EXCEPT ![c] = "done"]
    /\ rooms' = IF wasOpen THEN leaveAll(rooms, c) ELSE rooms
    /\ IF wasOpen /\ hooked
       THEN /\ clients' = handleDisconnectClients(clients, data, c)
            /\ trace' = [trace EXCEPT ![c] =
                 handleDisconnectTrace(Append(Append(@, "emit_error"), "disconnect"), data, c)]
       ELSE /\ clients' = clients
            /\ trace' = [trace EXCEPT ![c] = Append(Append(@, "emit_error"), "disconnect")]

\* A faulty handshake: the success event is emitted as soon as the token
\* verifies, before the user lookup and the registration.
awaitUserLookupEmitsSuccess(c, tok) ==
    /\ conn' = [conn EXCEPT ![c] = "open"]
    /\ hpc' = [hpc EXCEPT ![c] = "lookup"]
    /\ payload' = [payload EXCEPT ![c] = payloadSub(tok)]
    /\ sent' = [sent EXCEPT ![c] =
                  event("success", successResponse(userPayload(payloadSub(tok))))]
    /\ recv' = [recv EXCEPT ![c] =
                  event("success", successResponse(userPayload(payloadSub(tok))))]
    /\ trace' = [trace EXCEPT ![c] = Append(@, "emit_success")]
    /\ UNCHANGED <<data, clients, rooms>>

\* Lines 67-70: handleConnection suspends on the user lookup; nothing has been
\* emitted and nothing registered yet.
awaitUserLookup(c, tok) ==
    /\ conn' = [conn EXCEPT ![c] = "open"]
    /\ hpc' = [hpc EXCEPT ![c] = "lookup"]
    /\ payload' = [payload EXCEPT ![c] = payloadSub(tok)]
    /\ UNCHANGED <<data, clients, rooms, sent, recv, trace>>

\* handleConnection(client) up to its first return or its await (lines 55-70).
Connect(c, hs) ==
    /\ conn[c] = "new"
    /\ token' = [token EXCEPT ![c] = extractToken(hs)]
    /\ LET tok == extractToken(hs) IN
       IF tok = Null
       THEN /\ disconnectWithError(c, "Missing token", TRUE, FALSE)
            /\ UNCHANGED <<payload, data>>
       ELSE IF verifyThrows(tok)
       THEN /\ disconnectWithError(c, "jwt error", TRUE, FALSE)
            /\ UNCHANGED <<payload, data>>
       ELSE IF payloadSub(tok) = Null
       THEN /\ disconnectWithError(c, "Invalid token", TRUE, FALSE)
            /\ UNCHANGED <<payload, data>>
       ELSE awaitUserLookup(c, tok)

\* The effects of lines 74-80 on the trace, in program order.
acceptTrace(tr) ==
    Append(Append(Append(Append(tr, "bind"), "join"), "subscribe"), "emit_success")

\* A faulty line 72: the result of the lookup is not tested.
userMissingNever(user) == FALSE

\* Line 72: if (!user)
userMissing(user) == user = Null

\* handleConnection resumed from the user lookup (lines 72-80).
AuthResume(c) ==
    /\ hpc[c] = "lookup"
    /\ LET user == findUniqueUser(payload[c]) IN
       IF userMissing(user)
       THEN /\ disconnectWithError(c, "User not found", conn[c] = "open", TRUE)
            /\ UNCHANGED <<token, payload, data>>
       ELSE /\ data' = [data EXCEPT ![c] = [userId |-> user, user |-> payload[c]]]
            /\ rooms' = joinRoom(rooms, user, c, conn[c] = "open")
            /\ clients' = subscribeClient(clients, user, c)
            /\ sent' = [sent EXCEPT ![c] = event("success", successResponse(userPayload(user)))]
            /\ recv' = deliver(recv, c, event("success", successResponse(userPayload(user))),
                               conn[c] = "open")
            /\ trace' = [trace EXCEPT ![c] = acceptTrace(@)]
            /\ hpc' = [hpc EXCEPT ![c] = "done"]
            /\ UNCHANGED <<conn, token, payload>>

\* The user lookup rejects (store unavailable): the catch of lines 81-83.
AuthLookupFails(c) ==
    /\ hpc[c] = "lookup"
    /\ disconnectWithError(c, "store error", conn[c] = "open", TRUE)
    /\ UNCHANGED <<token, payload, data>>

\* The client (or the transport) closes an open socket: socket.io leaves all
\* rooms and fires handleDisconnect (lines 86-97).
Disconnect(c) ==
    /\ conn[c] = "open"
    /\ conn' = [conn EXCEPT ![c] = "closed"]
    /\ clients' = handleDisconnectClients(clients, data, c)
    /\ rooms' = leaveAll(rooms, c)
    /\ trace' = [trace EXCEPT ![c] = handleDisconnectTrace(Append(@, "disconnect"), data, c)]
    /\ UNCHANGED <<token, hpc, payload, data, sent, recv>>


GatewayStep ==
    \/ \E c \in Conns, hs \in Handshakes : Connect(c, hs)
    \/ \E c \in Conns : AuthResume(c)
    \/ \E c \in Conns : AuthLookupFails(c)
    \/ \E c \in Conns : Disconnect(c)

\* ------------------------------------------------------- the store (Prisma)
Statuses == {"ACTIVE", "ARCHIVED", "BLOCKED"}

isParticipant(row, userId) == row.initiatorId = userId \/ row.receiverId = userId

\* A faulty lookup: only the caller-to-target direction is searched.
matchesPairOrdered(row, a, b) == row.initiatorId = a /\ row.receiverId = b

\* where: { OR: [{initiatorId: a, receiverId: b}, {initiatorId: b, receiverId: a}] }
matchesPair(row, a, b) ==
    \/ (row.initiatorId = a /\ row.receiverId = b)
    \/ (row.initiatorId = b /\ row.receiverId = a)

\* privateConversation.findFirst over the pair, in either order, without an
\* orderBy: the ids findFirst may return, any matching row's, 0 when none
\* matches.
findFirstByPair(cs, a, b) ==
    LET hits == {i \in DOMAIN cs : matchesPair(cs[i], a, b)}
    IN  IF hits = {} THEN {0} ELSE hits

\* A faulty membership lookup: the row is looked up by id alone.
findFirstById(cs, id, userId) == IF id \in DOMAIN cs THEN id ELSE 0

\* A faulty membership lookup: the id is one more alternative of the OR
\* instead of a condition beside it.
findFirstByMemberOr(cs, id, userId) ==
    LET hits == {i \in DOMAIN cs :
                    i = id \/ cs[i].initiatorId = userId \/ cs[i].receiverId = userId}
    IN  IF hits = {} THEN 0 ELSE IF id \in hits THEN id ELSE CHOOSE i \in hits : TRUE

\* privateConversation.findFirst({ where: { id, OR: [{initiatorId: userId},
\* {receiverId: userId}] } }): the id, 0 when no such row.
findFirstByMember(cs, id, userId) ==
    IF id \in DOMAIN cs /\ isParticipant(cs[id], userId) THEN id ELSE 0

\* privateConversation.create({ data: { initiatorId, receiverId } }): a fresh id,
\* status at the schema's default.
createConversation(cs, id, initiatorId, receiverId) ==
    [i \in (DOMAIN cs) \cup {id} |->
        IF i = id
        THEN [initiatorId |-> initiatorId, receiverId |-> receiverId, status |-> "ACTIVE"]
        ELSE cs[i]]

\* privateConversation.delete({ where: { id } }) of an existing row
deleteRow(cs, id) == [i \in (DOMAIN cs) \ {id} |-> cs[i]]

\* A faulty update: a BLOCKED row keeps its status, whatever is asked.
updateStatusUnlessBlocked(cs, id, status) ==
    IF cs[id].status = "BLOCKED" THEN cs ELSE [cs EXCEPT ![id].status = status]

\* A faulty update: the status is toggled, so that asking for the status the
\* row already has puts it back to ACTIVE.
updateStatusToggle(cs, id, status) ==
    [cs EXCEPT ![id].status = IF @ = status THEN "ACTIVE" ELSE status]

\* privateConversation.update({ where: { id }, data: { status } }) of an existing row
updateStatus(cs, id, status) == [cs EXCEPT ![id].status = status]

\* conv.initiatorId === userId ? conv.receiver : conv.initiator
otherParticipant(row, userId) ==
    IF row.initiatorId = userId THEN row.receiverId ELSE row.initiatorId

\* { id, participant, status, ... }: the summary of a row for userId
summary(cs, id, userId) ==
    [NoPayload EXCEPT !.conv = id, !.participant = otherParticipant(cs[id], userId),
                      !.status = cs[id].status]

\* { conversationId, action }
actionPayload(id, action) == [NoPayload EXCEPT !.conv = id, !.action = action]

\* ------------------------------------------------------------- pagination
\* const { page = 1, limit = 20, search } = dto
DefaultPage == 1
DefaultLimit == 20

\* A faulty skip: pages are counted from 0.
skipOfPage(page, limit) == page * limit

\* const skip = (page - 1) * limit
skipOf(page, limit) == (page - 1) * limit

\* findMany({ where, orderBy, skip, take }) over n matching rows: the ranks, in
\* the order of orderBy, of the rows it returns.
findManyRanks(n, skip, take) == {i \in 1..n : i > skip /\ i <= skip + take}

\* Math.ceil(total / limit)
totalPages(total, limit) ==
    IF total % limit = 0 THEN total \div limit ELSE (total \div limit) + 1

\* No query: the dto, the table and the result are blank.
NoPage == [pc |-> "idle", total |-> 0, limit |-> 0, page |-> 0,
           items |-> 0, reported |-> 0, totalPages |-> 0]

\* ----------------------------------------------------------- message reads
\* The per-recipient status row of a message for one user; NoStatus: the
\* message has no such row.
NoStatus == "NONE"
MessageStatuses == {"SENT", "DELIVERED", "READ"}

\* A faulty filter: the sender of the message is not looked at.
isUnreadAnySender(m, userId) == m.status \in MessageStatuses /\ m.status # "READ"

\* messages: { where: { senderId: { not: userId },
\*                      statuses: { some: { userId, status: { not: 'READ' } } } } }
isUnread(m, userId) ==
    /\ m.senderId # userId
    /\ m.status \in MessageStatuses /\ m.status # "READ"

\* No derivation: requester, messages (id -> [senderId, status for the
\* requester]), the ids the include returned, conv.messages.length.
NoUnread == [pc |-> "idle", user |-> Null, msgs |-> << >>, included |-> {},
             unreadCount |-> 0]

\* A faulty page: the rows are returned as the store gave them, newest first.
reverseNot(rows) == rows

\* messages.reverse()
reverse(rows) == [i \in 1..Len(rows) |-> rows[Len(rows) + 1 - i]]

\* privateMessage.findMany({ where: { conversationId }, orderBy: { createdAt:
\* 'desc' }, skip, take }) over n messages whose createdAt are 1..n: the
\* createdAt of the rows, in the order returned.
findManyMessages(n, skip, take) ==
    LET ranks == findManyRanks(n, skip, take)
    IN  [i \in 1..Cardinality(ranks) |-> n + 1 - (skip + i)]

\* No query: the number of messages, dto.page, dto.limit, the rows of
\* findMany, result.messages, pagination.total and pagination.totalPages.
NoHistory == [pc |-> "idle", n |-> 0, page |-> 0, limit |-> 0, rows |-> << >>,
              messages |-> << >>, total |-> 0, totalPages |-> 0]

\* ------------------------------------------------------------------ search
\* Texts are sequences of the letters a, b, A, B; NoText stands for null / undefined.
NoText == <<"-">>
toLower(ch) == IF ch = "A" THEN "a" ELSE IF ch = "B" THEN "b" ELSE ch

\* { contains: search, mode: 'insensitive' }; a relation that is null (no
\* last message) matches nothing.
containsInsensitive(text, search) ==
    /\ text # NoText
    /\ \E i \in 0..(Len(text) - Len(search)) :
          \A j \in 1..Len(search) : toLower(text[i + j]) = toLower(search[j])

\* user.name of the stored users
nameOf(u) ==
    IF u = "alice" THEN <<"A", "b">> ELSE IF u = "bob" THEN <<"B", "a">> ELSE <<"a", "a">>
\* lastMessage.content of a conversation; NoText: it has no last message
Contents == {NoText, <<"a", "b">>, <<"b", "B">>}
\* dto.search; NoText: absent; the empty text is falsy like it
Searches == {NoText, << >>, <<"a">>, <<"A", "B">>, <<"b", "a">>, <<"b", "b">>}

\* if (search): undefined and '' add no condition
hasSearch(search) == search # NoText /\ search # << >>

\* whereClause.AND = { OR: [initiator.name, receiver.name, lastMessage.content] }
matchesSearch(row, search) ==
    \/ containsInsensitive(nameOf(row.initiatorId), search)
    \/ containsInsensitive(nameOf(row.receiverId), search)
    \/ containsInsensitive(row.lastMessage, search)

\* A faulty where clause: the search condition is one more alternative of the
\* participant OR.
whereClauseOr(row, userId, search) ==
    \/ isParticipant(row, userId)
    \/ (hasSearch(search) /\ matchesSearch(row, search))

\* whereClause = { OR: [{ initiatorId: userId }, { receiverId: userId }] },
\* with AND: { OR: [...] } beside it when a search term is given.
whereClause(row, userId, search) ==
    /\ isParticipant(row, userId)
    /\ hasSearch(search) => matchesSearch(row, search)

\* No query: the requester, dto.search, the table (id -> row), the ids
\* findMany returned, the count.
NoSearch == [pc |-> "idle", user |-> Null, search |-> NoText, table |-> << >>,
             items |-> {}, total |-> 0]

ReadInit == ur = NoUnread /\ hist = NoHistory /\ srch = NoSearch

\* ------------------------------------------------------ ConversationService
Idle(c) == call[c].pc = "idle"

\* emitError(client, message): emits the error envelope to the client's own
\* room and returns it.  The handler ends there.
failCall(c, message) ==
    /\ sent' = [sent EXCEPT ![c] = event("error", errorResponse(message))]
    /\ recv' = deliver(recv, c, event("error", errorResponse(message)), conn[c] = "open")
    /\ ret' = [ret EXCEPT ![c] = event("return", errorResponse(message))]

\* client.emit(name, successResponse(d)); return successResponse(d)
succeedCall(c, name, d) ==
    /\ sent' = [sent EXCEPT ![c] = event(name, successResponse(d))]
    /\ recv' = deliver(recv, c, event(name, successResponse(d)), conn[c] = "open")
    /\ ret' = [ret EXCEPT ![c] = event("return", successResponse(d))]

\* lastInit once an event of caller a with target b has arrived: it is kept
\* when the event is an initiate for the pair of the latest finished initiate.
arrived(last, op, a, b) ==
    IF op = "initiate" /\ last.conv # 0 /\ {last.a, last.b} = {a, b} THEN last ELSE NoInit

\* lastInit once a handler of caller a with target b has finished: conv is the
\* id an initiate returned, 0 for a failed one; any other handler resets it.
finished(last, op, a, b, conv, created) ==
    IF op # "initiate" THEN NoInit
    ELSE LET follows == last.conv # 0 /\ {last.a, last.b} = {a, b}
         IN  [a |-> a, b |-> b, conv |-> conv, created |-> created,
              prev |-> IF follows THEN last.conv ELSE 0,
              swapped |-> follows /\ last.a = b /\ a # b]

\* A faulty guard: the handler does not test client.data.userId.
unauthorizedNever(userId) == FALSE
\* Line 184 and its like: if (!userId)
unauthorized(userId) == userId = Null
\* A faulty line 456: the self check is missing.
selfTargetNever(initiatorId, targetUserId) == FALSE
\* Line 456: if (initiatorId === targetUserId)
selfTarget(initiatorId, targetUserId) == initiatorId = targetUserId

\* A faulty line 511: the result of the target lookup is not tested.
targetMissingNever(targetUser) == FALSE
\* Line 511: if (!targetUser)
targetMissing(targetUser) == targetUser = Null

\* The first lines of every handler: userId = client.data.userId; if (!userId)
\* return emitError(client, 'Unauthorized'); for initiate the self check of
\* lines 456-461; otherwise the handler runs up to its first store access,
\* where it suspends at position pc.  The handler reads only client.data: it
\* runs the same on a socket that is no longer open, where its emits are lost.
enterHandler(c, op, target, cid, pc) ==
    /\ conn[c] # "new"
    /\ Idle(c)
    /\ UNCHANGED <<gwVars, convs, nextId, push>>
    /\ LET userId == data[c].userId
           entered == [NoCall EXCEPT !.op = op, !.user = userId, !.target = target,
                                     !.cid = cid]
           refusal == IF unauthorized(userId) THEN "Unauthorized"
                      ELSE IF op = "initiate" /\ selfTarget(userId, target)
                      THEN "Cannot initiate conversation with yourself"
                      ELSE Null
       IN  IF refusal # Null
           THEN /\ failCall(c, refusal)
                /\ call' = [call EXCEPT ![c] = [entered EXCEPT !.pc = "done"]]
                /\ ctrace' = [ctrace EXCEPT ![c] = <<"emit_error">>]
                /\ lastInit' = finished(arrived(lastInit, op, userId, target), op, userId,
                                        target, 0, FALSE)
           ELSE /\ call' = [call EXCEPT ![c] = [entered EXCEPT !.pc = pc]]
                /\ lastInit' = arrived(lastInit, op, userId, target)
                /\ UNCHANGED <<evVars, ret, ctrace>>

\* The client has taken note of the outcome of its latest event: what the
\* finished handler left on c is forgotten.
Observe(c) ==
    /\ call[c].pc = "done"
    /\ call' = [call EXCEPT ![c] = NoCall]
    /\ ret' = [ret EXCEPT ![c] = NoEvent]
    /\ push' = [push EXCEPT ![c] = NoPush]
    /\ ctrace' = [ctrace EXCEPT ![c] = << >>]
    /\ sent' = [sent EXCEPT ![c] = NoEvent]
    /\ recv' = [recv EXCEPT ![c] = NoEvent]
    /\ UNCHANGED <<gwVars, convs, nextId, lastInit>>

\* A handler ends with an error envelope (an early return or its catch).
endWithError(c, message, accesses) ==
    /\ failCall(c, message)
    /\ call' = [call EXCEPT ![c].pc = "done"]
    /\ ctrace' = [ctrace EXCEPT ![c] = @ \o accesses \o <<"emit_error">>]
    /\ push' = push
    /\ lastInit' = finished(lastInit, call[c].op, call[c].user, call[c].target, 0, FALSE)

\* A handler ends with its result emitted to the caller and, when `to` is a
\* user, chatGateway.emitToUserFirstSocket(to, CONVERSATION_UPDATE, pushed).
endWithSuccess(c, name, d, to, pushed, accesses) ==
    /\ succeedCall(c, name, d)
    /\ call' = [call EXCEPT ![c].pc = "done"]
    /\ lastInit' = finished(lastInit, call[c].op, call[c].user, call[c].target, d.conv,
                            accesses = <<"db_create">>)
    /\ IF to = Null
       THEN /\ push' = push
            /\ ctrace' = [ctrace EXCEPT ![c] = @ \o accesses \o <<"emit">>]
       ELSE /\ push' = [push EXCEPT ![c] =
                          [to |-> to, ev |-> "conversation_update", data |-> pushed]]
            /\ ctrace' = [ctrace EXCEPT ![c] = @ \o accesses \o <<"emit", "push">>]

\* --- loadConversations (lines 181-321), dto defaults: page 1, limit 20, no search
\* The rows findMany returns of the matching ones: all of them when the page
\* covers every rank; the table never holds more rows than one default page.
findManyPage(matching, skip, take) ==
    IF findManyRanks(Cardinality(matching), skip, take) = 1..Cardinality(matching)
    THEN matching ELSE {}

LoadConversations(c) == enterHandler(c, "loadList", Null, 0, "findMany")

\* Lines 222-276: Promise.all issues findMany and count together and the
\* store answers them in either order; pc is "findMany" while both are
\* pending, "count" once findMany alone has answered and "rows" once count
\* alone has.  The answer that comes last resumes the handler, which emits
\* the response.
\* privateConversation.findMany over the caller's conversations
LoadConversationsFindMany(c) ==
    /\ call[c].op = "loadList" /\ call[c].pc \in {"findMany", "rows"}
    /\ LET items == findManyPage(
                      {i \in DOMAIN convs : isParticipant(convs[i], call[c].user)},
                      skipOf(DefaultPage, DefaultLimit), DefaultLimit)
       IN  IF call[c].pc = "findMany"
           THEN /\ call' = [call EXCEPT ![c].pc = "count", ![c].items = items]
                /\ ctrace' = [ctrace EXCEPT ![c] = Append(@, "db_findMany")]
                /\ UNCHANGED <<evVars, ret, push, lastInit>>
           ELSE endWithSuccess(c, "conversation_list_response",
                  [NoPayload EXCEPT !.items = items, !.total = call[c].total],
                  Null, NoPayload, <<"db_findMany">>)
    /\ UNCHANGED <<gwVars, convs, nextId>>

\* privateConversation.count over the same filter
LoadConversationsCount(c) ==
    /\ call[c].op = "loadList" /\ call[c].pc \in {"findMany", "count"}
    /\ LET total == Cardinality({i \in DOMAIN convs : isParticipant(convs[i], call[c].user)})
       IN  IF call[c].pc = "findMany"
           THEN /\ call' = [call EXCEPT ![c].pc = "rows", ![c].total = total]
                /\ ctrace' = [ctrace EXCEPT ![c] = Append(@, "db_count")]
                /\ UNCHANGED <<evVars, ret, push, lastInit>>
           ELSE endWithSuccess(c, "conversation_list_response",
                  [NoPayload EXCEPT !.items = call[c].items, !.total = total],
                  Null, NoPayload, <<"db_count">>)
    /\ UNCHANGED <<gwVars, convs, nextId>>

\* --- loadSingleConversation (lines 326-435)
LoadSingleConversation(c, cid) == enterHandler(c, "loadSingle", Null, cid, "find")

\* lines 340-372: the membership lookup
LoadSingleFind(c) ==
    /\ call[c].op = "loadSingle" /\ call[c].pc = "find"
    /\ UNCHANGED <<gwVars, convs, nextId>>
    /\ LET conversation == findFirstByMember(convs, call[c].cid, call[c].user) IN
       IF conversation = 0
       THEN endWithError(c, "Conversation not found or unauthorized", <<"db_findFirst">>)
       ELSE /\ call' = [call EXCEPT ![c].pc = "messages",
                          ![c].other = otherParticipant(convs[conversation], call[c].user),
                          ![c].status = convs[conversation].status]
            /\ ctrace' = [ctrace EXCEPT ![c] = Append(@, "db_findFirst")]
            /\ UNCHANGED <<evVars, ret, push, lastInit>>

\* lines 374-427: Promise.all issues the findMany of the page of messages and
\* their count together (the message table is read-only in this core and
\* empty here) and the store answers them in either order: pc is "messages"
\* while both are pending, "count" once findMany alone has answered, "rows"
\* once count alone has.  The answer that comes last resumes the handler,
\* which builds the response from the row loaded by the membership lookup.
loadSingleAnswer(c, access, pending) ==
    /\ UNCHANGED <<gwVars, convs, nextId>>
    /\ IF call[c].pc = "messages"
       THEN /\ call' = [call EXCEPT ![c].pc = pending]
            /\ ctrace' = [ctrace EXCEPT ![c] = Append(@, access)]
            /\ UNCHANGED <<evVars, ret, push, lastInit>>
       ELSE endWithSuccess(c, "conversation_response",
              [NoPayload EXCEPT !.conv = call[c].cid, !.participant = call[c].other,
                                !.status = call[c].status],
              Null, NoPayload, <<access>>)

\* privateMessage.findMany({ where: { conversationId }, ... })
LoadSingleMessages(c) ==
    /\ call[c].op = "loadSingle" /\ call[c].pc \in {"messages", "rows"}
    /\ loadSingleAnswer(c, "db_findMany", "count")

\* privateMessage.count({ where: { conversationId } })
LoadSingleCount(c) ==
    /\ call[c].op = "loadSingle" /\ call[c].pc \in {"messages", "count"}
    /\ loadSingleAnswer(c, "db_count", "rows")

\* --- initiateConversationWithUser (lines 440-586)
InitiateConversationWithUser(c, target) == enterHandler(c, "initiate", target, 0, "find")

\* lines 463-504: the bidirectional existence lookup
InitiateFind(c) ==
    /\ call[c].op = "initiate" /\ call[c].pc = "find"
    /\ UNCHANGED <<gwVars, convs, nextId>>
    /\ \E found \in findFirstByPair(convs, call[c].user, call[c].target) :
       IF found # 0
       THEN endWithSuccess(c, "success", summary(convs, found, call[c].user),
                           otherParticipant(convs[found], call[c].user),
                           summary(convs, found, call[c].user), <<"db_findFirst">>)
       ELSE /\ call' = [call EXCEPT ![c].pc = "findUser"]
            /\ ctrace' = [ctrace EXCEPT ![c] = Append(@, "db_findFirst")]
            /\ UNCHANGED <<evVars, ret, push, lastInit>>

\* lines 506-513: the target user lookup
InitiateFindUser(c) ==
    /\ call[c].op = "initiate" /\ call[c].pc = "findUser"
    /\ UNCHANGED <<gwVars, convs, nextId>>
    /\ IF targetMissing(findUniqueUser(call[c].target))
       THEN endWithError(c, "Target user not found", <<"db_findUnique">>)
       ELSE /\ call' = [call EXCEPT ![c].pc = "create"]
            /\ ctrace' = [ctrace EXCEPT ![c] = Append(@, "db_findUnique")]
            /\ UNCHANGED <<evVars, ret, push, lastInit>>

\* lines 515-578: the create, then the response and the push to the target
InitiateCreate(c) ==
    /\ call[c].op = "initiate" /\ call[c].pc = "create"
    /\ nextId <= MaxConvs
    /\ convs' = createConversation(convs, nextId, call[c].user, call[c].target)
    /\ nextId' = nextId + 1
    /\ endWithSuccess(c, "success", summary(convs', nextId, call[c].user),
                      otherParticipant(convs'[nextId], call[c].user),
                      summary(convs', nextId, call[c].user), <<"db_create">>)
    /\ UNCHANGED gwVars

\* --- deleteConversation (lines 591-651)
DeleteConversation(c, cid) == enterHandler(c, "delete", Null, cid, "find")

\* lines 604-623: the membership lookup
DeleteFind(c) ==
    /\ call[c].op = "delete" /\ call[c].pc = "find"
    /\ UNCHANGED <<gwVars, convs, nextId>>
    /\ LET conversation == findFirstByMember(convs, call[c].cid, call[c].user) IN
       IF conversation = 0
       THEN endWithError(c, "Conversation not found or unauthorized", <<"db_findFirst">>)
       ELSE /\ call' = [call EXCEPT ![c].pc = "delete",
                          ![c].other = otherParticipant(convs[conversation], call[c].user)]
            /\ ctrace' = [ctrace EXCEPT ![c] = Append(@, "db_findFirst")]
            /\ UNCHANGED <<evVars, ret, push, lastInit>>

\* lines 625-643: the delete (which throws when the row is gone), then the
\* response and the push to the counterpart
DeleteDelete(c) ==
    /\ call[c].op = "delete" /\ call[c].pc = "delete"
    /\ IF call[c].cid \in DOMAIN convs
       THEN /\ convs' = deleteRow(convs, call[c].cid)
            /\ endWithSuccess(c, "success", [NoPayload EXCEPT !.action = "success"],
                              call[c].other, actionPayload(call[c].cid, "deleted"),
                              <<"db_delete">>)
       ELSE /\ convs' = convs
            /\ endWithError(c, "Record to delete does not exist", <<"db_delete">>)
    /\ UNCHANGED <<gwVars, nextId>>

\* --- archive / block / unblock (lines 656-789) over updateConversationStatus
ArchiveConversation(c, cid) == enterHandler(c, "archive", Null, cid, "find")
BlockConversation(c, cid) == enterHandler(c, "block", Null, cid, "find")
UnblockConversation(c, cid) == enterHandler(c, "unblock", Null, cid, "find")

StatusOps == {"archive", "block", "unblock"}
\* ConversationStatus.ARCHIVED / BLOCKED / ACTIVE passed by the three handlers
statusOf(op) ==
    IF op = "archive" THEN "ARCHIVED" ELSE IF op = "block" THEN "BLOCKED" ELSE "ACTIVE"
\* the action tag of the push: blocked / unblocked; archive pushes nothing
actionOf(op) == IF op = "block" THEN "blocked" ELSE "unblocked"

\* updateConversationStatus lines 799-811: the membership lookup, which loads
\* the row as it is before the update; its throw is caught by the handler,
\* which emits the error's message.
StatusFind(c) ==
    /\ call[c].op \in StatusOps /\ call[c].pc = "find"
    /\ UNCHANGED <<gwVars, convs, nextId>>
    /\ LET conversation == findFirstByMember(convs, call[c].cid, call[c].user) IN
       IF conversation = 0
       THEN endWithError(c, "Conversation not found or unauthorized", <<"db_findFirst">>)
       ELSE /\ call' = [call EXCEPT ![c].pc = "update",
                          ![c].status = convs[conversation].status]
            /\ ctrace' = [ctrace EXCEPT ![c] = Append(@, "db_findFirst")]
            /\ UNCHANGED <<evVars, ret, push, lastInit>>

\* A faulty update: an upsert, which puts a row that is gone back into the
\* table with the requested status.
StatusUpdateUpserts(c) ==
    /\ call[c].op \in StatusOps /\ call[c].pc = "update"
    /\ convs' = [i \in (DOMAIN convs) \cup {call[c].cid} |->
                    IF i = call[c].cid
                    THEN [initiatorId |-> call[c].user,
                          receiverId |-> IF call[c].user = "alice" THEN "bob" ELSE "alice",
                          status |-> statusOf(call[c].op)]
                    ELSE convs[i]]
    /\ endWithSuccess(c, "conversation_update",
         summary(convs', call[c].cid, call[c].user), Null,
         actionPayload(call[c].cid, actionOf(call[c].op)), <<"db_update">>)
    /\ UNCHANGED <<gwVars, nextId>>

\* updateConversationStatus lines 813-845 and the handler's emits: the update
\* (which throws when the row is gone), the summary to the caller, and for
\* block and unblock the push to the counterpart.
StatusUpdate(c) ==
    /\ call[c].op \in StatusOps /\ call[c].pc = "update"
    /\ IF call[c].cid \in DOMAIN convs
       THEN /\ convs' = updateStatus(convs, call[c].cid, statusOf(call[c].op))
            /\ endWithSuccess(c, "conversation_update",
                 summary(convs', call[c].cid, call[c].user),
                 IF call[c].op = "archive" THEN Null
                 ELSE otherParticipant(convs'[call[c].cid], call[c].user),
                 actionPayload(call[c].cid, actionOf(call[c].op)), <<"db_update">>)
       ELSE /\ convs' = convs
            /\ endWithError(c, "Record to update not found", <<"db_update">>)
    /\ UNCHANGED <<gwVars, nextId>>

\* A faulty catch: the exception leaves the handler, nothing is emitted.
StoreFailsPropagates(c) ==
    /\ call[c].pc \notin {"idle", "done"}
    /\ call' = [call EXCEPT ![c].pc = "done"]
    /\ ctrace' = [ctrace EXCEPT ![c] = @ \o <<"db_throw">>]
    /\ lastInit' = finished(lastInit, call[c].op, call[c].user, call[c].target, 0, FALSE)
    /\ UNCHANGED <<gwVars, evVars, convs, nextId, ret, push>>

\* The store access a handler is suspended on rejects (store unavailable): the
\* handler's catch emits the error's message with emitError and returns it.
\* The rejected access has changed nothing.
StoreFails(c) ==
    /\ call[c].pc \notin {"idle", "done"}
    /\ endWithError(c, "store error", <<"db_throw">>)
    /\ UNCHANGED <<gwVars, convs, nextId>>

\* ------------------------------------------------------------ notifications
Calls == 1..MaxCalls
\* The calls are numbered in the order they are made.
NextCall(k) == ncall[k].pc = "idle" /\ \A j \in Calls : j < k => ncall[j].pc # "idle"

\* A faulty filter: SUPER_ADMIN is left out.
isAdminOnly(role) == role = "ADMIN"
\* where: { role: { in: ['ADMIN', 'SUPER_ADMIN'] } }
isAdmin(role) == role \in {"ADMIN", "SUPER_ADMIN"}

\* The user table without an elevated role, and with two of them.
PlainRoles == {[u \in ExistingUsers |-> "USER"]}
RoleTables ==
    PlainRoles \cup
    {[u \in ExistingUsers |->
        IF u = "alice" THEN "ADMIN" ELSE IF u = "carol" THEN "SUPER_ADMIN" ELSE "USER"]}

\* A call slot.  live: the Set the call took from getClients is still the one
\* the registry holds for its user (a Set made by `|| new Set()` never is, and
\* a Set whose key was deleted never is again); recipients: the userIds the
\* call computed; note: the id of the record it created (0: none); emitted:
\* the sockets it called emit on.
NoNotify == [op |-> "none", pc |-> "idle", user |-> Null, live |-> FALSE, batch |-> FALSE,
             recipients |-> {}, note |-> 0, result |-> "none", emitted |-> {}]

NotifyInit(roleTables) ==
    /\ roles \in roleTables
    /\ notes = [n \in {} |-> [users |-> {}]]
    /\ nextNote = 1
    /\ ncall = [k \in Calls |-> NoNotify]
    /\ got = [c \in Conns |-> {}]

\* notification.create({ data: { ..., users: { create / createMany } } })
createNotification(ns, id, users) ==
    [n \in (DOMAIN ns) \cup {id} |-> IF n = id THEN [users |-> users] ELSE ns[n]]

\* users: { create: { userId } }
recipientsOfSingleNone(userId) == {}
recipientsOfSingle(userId) == {userId}

\* client.emit(event, payload) on every socket of `targets`: the open ones
\* receive the payload and its notificationId.
emitAll(g, targets, id) ==
    [c \in Conns |-> IF c \in targets /\ conn[c] = "open" THEN g[c] \cup {id} ELSE g[c]]

\* What a registry change does to the calls suspended on their create: the Set
\* a notifySingleUser holds stops being the registry's when its key is deleted.
held(nc, reg) ==
    [k \in Calls |->
        IF nc[k].op = "single" /\ nc[k].pc = "create" /\ nc[k].user \notin DOMAIN reg
        THEN [nc[k] EXCEPT !.live = FALSE] ELSE nc[k]]

\* notifySingleUser line 147 up to the await of the create.
startSingle(userId, asBatch) ==
    [NoNotify EXCEPT !.op = "single", !.pc = "create", !.user = userId,
                     !.live = userId \in DOMAIN clients, !.batch = asBatch,
                     !.recipients = recipientsOfSingle(userId)]

\* A faulty notifySingleUser: the payload is emitted before the record is made.
NotifySingleUserEmitsFirst(k, userId) ==
    /\ NextCall(k)
    /\ ncall' = [ncall EXCEPT ![k] = startSingle(userId, FALSE)]
    /\ got' = emitAll(got, getClients(clients, userId), 0)
    /\ UNCHANGED <<gwVars, evVars, convVars, pageVars, readVars, roles, notes, nextNote>>

\* notifySingleUser(userId, event, data), lines 142-148
NotifySingleUser(k, userId) ==
    /\ NextCall(k)
    /\ ncall' = [ncall EXCEPT ![k] = startSingle(userId, FALSE)]
    /\ UNCHANGED <<gwVars, evVars, convVars, pageVars, readVars, roles, notes, nextNote, got>>

\* notifyMultipleUsers(userIds, event, data), lines 163-169: forEach starts one
\* notifySingleUser per element, each up to its await, and awaits none of them.
NotifyMultipleUsers(userIds) ==
    /\ \A k \in Calls : ncall[k].pc = "idle"
    /\ ncall' = [k \in Calls |-> startSingle(userIds[k], TRUE)]
    /\ UNCHANGED <<gwVars, evVars, convVars, pageVars, readVars, roles, notes, nextNote, got>>

\* Line 173: if (userIds.length === 0)
noRecipientsNever(userIds) == FALSE
noRecipients(userIds) == userIds = {}

\* notifyAllUsers(event, data), lines 171-178: the registry's keys, then the
\* early return or the await of the create.
NotifyAllUsers(k) ==
    /\ NextCall(k)
    /\ LET userIds == DOMAIN clients IN
       ncall' = [ncall EXCEPT ![k] =
                   IF noRecipients(userIds)
                   THEN [NoNotify EXCEPT !.op = "all", !.pc = "done", !.result = "noop"]
                   ELSE [NoNotify EXCEPT !.op = "all", !.pc = "create",
                                         !.recipients = userIds]]
    /\ UNCHANGED <<gwVars, evVars, convVars, pageVars, readVars, roles, notes, nextNote, got>>

\* emitToAdmins(event, data), line 206: the await of the findMany
EmitToAdmins(k) ==
    /\ NextCall(k)
    /\ ncall' = [ncall EXCEPT ![k] = [NoNotify EXCEPT !.op = "admins", !.pc = "findMany"]]
    /\ UNCHANGED <<gwVars, evVars, convVars, pageVars, readVars, roles, notes, nextNote, got>>

\* emitToAdmins lines 206-212: the admins of the store, then the early return
\* or the await of the create.
EmitToAdminsFound(k) ==
    /\ ncall[k].op = "admins" /\ ncall[k].pc = "findMany"
    /\ LET admins == {u \in ExistingUsers : isAdmin(roles[u])} IN
       ncall' = [ncall EXCEPT ![k] =
                   IF admins = {}
                   THEN [@ EXCEPT !.pc = "done", !.result = "noop"]
                   ELSE [@ EXCEPT !.pc = "create", !.recipients = admins]]
    /\ UNCHANGED <<gwVars, evVars, convVars, pageVars, readVars, roles, notes, nextNote, got>>

\* emitToAdmins line 206: the findMany rejects.  The method has no catch, so
\* the call ends there with that rejection: no record, nothing emitted.
EmitToAdminsFails(k) ==
    /\ ncall[k].op = "admins" /\ ncall[k].pc = "findMany"
    /\ ncall' = [ncall EXCEPT ![k] = [@ EXCEPT !.pc = "done", !.result = "failed"]]
    /\ UNCHANGED <<gwVars, evVars, convVars, pageVars, readVars, roles, notes, nextNote, got>>

\* The sockets a call emits to once its record exists: notifySingleUser the
\* Set it took before the await (line 158), notifyAllUsers every Set of the
\* registry (lines 198-200), emitToAdmins getClients of every admin (229-231).
targetsOf(nc, reg) ==
    IF nc.op = "single" THEN (IF nc.live THEN getClients(reg, nc.user) ELSE {})
    ELSE IF nc.op = "all" THEN UNION {reg[u] : u \in DOMAIN reg}
    ELSE UNION {getClients(reg, a) : a \in nc.recipients}

\* The server process runs until a rejection nobody handles has ended it.
ProcessRunning == \A k \in Calls : ncall[k].result # "unhandled"

\* The create rejects: the call ends there with that rejection (no catch in
\* any of the four methods), nothing is emitted.  The rejection goes to the
\* caller; for a call started by notifyMultipleUsers, whose forEach of line
\* 168 drops the promise, this is the outcome of a runtime that only reports
\* an unhandled rejection.
NotifyPersistFails(k) ==
    /\ ncall[k].pc = "create"
    /\ ncall' = [ncall EXCEPT ![k] = [@ EXCEPT !.pc = "done", !.result = "failed"]]
    /\ UNCHANGED <<gwVars, evVars, convVars, pageVars, readVars, roles, notes, nextNote, got>>

\* The create of a call started by notifyMultipleUsers rejects and the
\* runtime treats the unhandled rejection as fatal (node's default): the
\* process ends.  Every socket is closed without handleDisconnect, the
\* registry and the rooms are gone with the process, and the calls still
\* suspended on their create are never resumed: they make no record the
\* process learns of and emit nothing.
NotifyUnhandledRejection(k) ==
    /\ ncall[k].pc = "create" /\ ncall[k].batch
    /\ ncall' = [j \in Calls |->
                   IF j = k THEN [ncall[j] EXCEPT !.pc = "done", !.result = "unhandled"]
                   ELSE IF ncall[j].pc \in {"create", "findMany"}
                        THEN [ncall[j] EXCEPT !.pc = "done", !.result = "lost"]
                        ELSE ncall[j]]
    /\ conn' = [c \in Conns |-> IF conn[c] = "open" THEN "closed" ELSE conn[c]]
    /\ clients' = [u \in {} |-> {}]
    /\ rooms' = [u \in UserIds |-> {}]
    /\ UNCHANGED <<token, hpc, payload, data, trace, evVars, convVars, pageVars, readVars,
                   roles, notes, nextNote, got>>

\* The create resolves: the record exists, then the payload with its id is
\* emitted (lines 157-158, 195-200, 227-231).
NotifyPersist(k) ==
    /\ ncall[k].pc = "create"
    /\ notes' = createNotification(notes, nextNote, ncall[k].recipients)
    /\ nextNote' = nextNote + 1
    /\ got' = emitAll(got, targetsOf(ncall[k], clients), nextNote)
    /\ ncall' = [ncall EXCEPT ![k] = [@ EXCEPT !.pc = "done", !.result = "ok",
                                                !.note = nextNote,
                                                !.emitted = targetsOf(ncall[k], clients)]]
    /\ UNCHANGED <<gwVars, evVars, convVars, pageVars, readVars, roles>>

\* ------------------------------------------------------------ specifications
\* The gateway alone: sockets connect, authenticate and disconnect.
Init == GatewayInit /\ ConvInit /\ pg = NoPage /\ ReadInit /\ NotifyInit(PlainRoles)
Next == GatewayStep /\ UNCHANGED <<convVars, sideVars>>
Spec == Init /\ [][Next]_vars

\* The gateway with the user lookup of every handshake eventually returning
\* or failing.
LiveNext == GatewayStep /\ UNCHANGED <<convVars, sideVars>>
SpecLive ==
    /\ Init
    /\ [][LiveNext]_vars
    /\ \A c \in Conns :
          WF_vars((AuthResume(c) \/ AuthLookupFails(c)) /\ UNCHANGED <<convVars, sideVars>>)

\* The sessions after their Connect: those of `pending` are suspended on the
\* user lookup, the others have been through AuthResume.  tk[c] is the token
\* of session c, the id of a stored user.
SessionInit(tokens, pending) ==
    \E tk \in tokens :
        LET bound == Sessions \ pending
            welcome(c) == event("success", successResponse(userPayload(tk[c])))
        IN
        /\ conn = [c \in Conns |-> IF c \in Sessions THEN "open" ELSE "new"]
        /\ token = [c \in Conns |-> IF c \in Sessions THEN tk[c] ELSE Null]
        /\ hpc = [c \in Conns |-> IF c \in pending THEN "lookup"
                                  ELSE IF c \in bound THEN "done" ELSE "idle"]
        /\ payload = [c \in Conns |-> IF c \in Sessions THEN payloadSub(tk[c]) ELSE Null]
        /\ data = [c \in Conns |-> IF c \in bound
                                   THEN [userId |-> tk[c], user |-> tk[c]] ELSE NoData]
        /\ clients = [u \in {tk[c] : c \in bound} |-> {c \in bound : tk[c] = u}]
        /\ rooms = [u \in UserIds |-> {c \in bound : tk[c] = u}]
        /\ sent = [c \in Conns |-> IF c \in bound THEN welcome(c) ELSE NoEvent]
        /\ recv = [c \in Conns |-> IF c \in bound THEN welcome(c) ELSE NoEvent]
        /\ trace = [c \in Conns |-> IF c \in bound THEN acceptTrace(<< >>) ELSE << >>]

\* The token each session presents: session 2 is bob's, the others are alice's.
UserOf(c) == IF c = 2 THEN "bob" ELSE "alice"
\* Every session presents the token of its own user ...
BoundTokens == {[c \in Sessions |-> UserOf(c)]}
\* ... or every session but the first is either alice's or bob's.
SharedTokens == {tk \in [Sessions -> {"alice", "bob"}] : tk[1] = "alice"}

\* One conversation event at a time: a client event is handled to its end
\* before the next one arrives.
NoCallInFlight == \A c \in Conns : Idle(c)
SeqInit == SessionInit(BoundTokens, {1}) /\ ConvInit /\ pg = NoPage /\ ReadInit /\ NotifyInit(PlainRoles)
SeqNext ==
    \/ \E c \in Sessions : AuthResume(c) /\ UNCHANGED <<convVars, sideVars>>
    \/ \E c \in Sessions : NoCallInFlight /\ LoadConversations(c) /\ UNCHANGED sideVars
    \/ \E c \in Sessions, cid \in ConvIds : NoCallInFlight /\ LoadSingleConversation(c, cid) /\ UNCHANGED sideVars
    \/ \E c \in Sessions, target \in UserIds :
          NoCallInFlight /\ InitiateConversationWithUser(c, target) /\ UNCHANGED sideVars
    \/ \E c \in Sessions, cid \in ConvIds : NoCallInFlight /\ DeleteConversation(c, cid) /\ UNCHANGED sideVars
    \/ \E c \in Sessions, cid \in ConvIds : NoCallInFlight /\ ArchiveConversation(c, cid) /\ UNCHANGED sideVars
    \/ \E c \in Sessions, cid \in ConvIds : NoCallInFlight /\ BlockConversation(c, cid) /\ UNCHANGED sideVars
    \/ \E c \in Sessions, cid \in ConvIds : NoCallInFlight /\ UnblockConversation(c, cid) /\ UNCHANGED sideVars
    \/ \E c \in Sessions : LoadConversationsFindMany(c) /\ UNCHANGED sideVars
    \/ \E c \in Sessions : LoadConversationsCount(c) /\ UNCHANGED sideVars
    \/ \E c \in Sessions : LoadSingleFind(c) /\ UNCHANGED sideVars
    \/ \E c \in Sessions : LoadSingleMessages(c) /\ UNCHANGED sideVars
    \/ \E c \in Sessions : LoadSingleCount(c) /\ UNCHANGED sideVars
    \/ \E c \in Sessions : InitiateFind(c) /\ UNCHANGED sideVars
    \/ \E c \in Sessions : InitiateFindUser(c) /\ UNCHANGED sideVars
    \/ \E c \in Sessions : InitiateCreate(c) /\ UNCHANGED sideVars
    \/ \E c \in Sessions : DeleteFind(c) /\ UNCHANGED sideVars
    \/ \E c \in Sessions : DeleteDelete(c) /\ UNCHANGED sideVars
    \/ \E c \in Sessions : StatusFind(c) /\ UNCHANGED sideVars
    \/ \E c \in Sessions : StatusUpdate(c) /\ UNCHANGED sideVars
    \/ \E c \in Sessions : Observe(c) /\ UNCHANGED sideVars
SpecSeq == SeqInit /\ [][SeqNext]_vars

\* Conversation initiations of different connections overlap: every await is
\* a point where another connection's handler runs.
InitiateInit ==
    SessionInit(SharedTokens, {1}) /\ ConvInit /\ pg = NoPage /\ ReadInit /\ NotifyInit(PlainRoles)
InitiateNext ==
    \/ \E c \in Sessions : AuthResume(c) /\ UNCHANGED <<convVars, sideVars>>
    \/ \E c \in Sessions, target \in UserIds : InitiateConversationWithUser(c, target) /\ UNCHANGED sideVars
    \/ \E c \in Sessions : InitiateFind(c) /\ UNCHANGED sideVars
    \/ \E c \in Sessions : InitiateFindUser(c) /\ UNCHANGED sideVars
    \/ \E c \in Sessions : InitiateCreate(c) /\ UNCHANGED sideVars
    \/ \E c \in Sessions : Observe(c) /\ UNCHANGED sideVars
SpecInitiate == InitiateInit /\ [][InitiateNext]_vars

\* Store failures during the handlers: every session is authenticated and
\* sends one event; the handlers of different sessions overlap and any store
\* access may reject.
\* The table holds the conversation alice started with bob, in any status.
FaultTables ==
    {[i \in {1} |-> [initiatorId |-> "alice", receiverId |-> "bob", status |-> st]] :
        st \in Statuses}
FaultInit ==
    /\ SessionInit(BoundTokens, {}) /\ pg = NoPage /\ ReadInit /\ NotifyInit(PlainRoles)
    /\ convs \in FaultTables
    /\ nextId = 2
    /\ call = [c \in Conns |-> NoCall]
    /\ ret = [c \in Conns |-> NoEvent]
    /\ push = [c \in Conns |-> NoPush]
    /\ ctrace = [c \in Conns |-> << >>]
    /\ lastInit = NoInit
FaultNext ==
    \/ \E c \in Sessions : LoadConversations(c) /\ UNCHANGED sideVars
    \/ \E c \in Sessions : LoadSingleConversation(c, 1) /\ UNCHANGED sideVars
    \/ \E c \in Sessions : InitiateConversationWithUser(c, "carol") /\ UNCHANGED sideVars
    \/ \E c \in Sessions : DeleteConversation(c, 1) /\ UNCHANGED sideVars
    \/ \E c \in Sessions : ArchiveConversation(c, 1) /\ UNCHANGED sideVars
    \/ \E c \in Sessions : BlockConversation(c, 1) /\ UNCHANGED sideVars
    \/ \E c \in Sessions : UnblockConversation(c, 1) /\ UNCHANGED sideVars
    \/ \E c \in Sessions : LoadConversationsFindMany(c) /\ UNCHANGED sideVars
    \/ \E c \in Sessions : LoadConversationsCount(c) /\ UNCHANGED sideVars
    \/ \E c \in Sessions : LoadSingleFind(c) /\ UNCHANGED sideVars
    \/ \E c \in Sessions : LoadSingleMessages(c) /\ UNCHANGED sideVars
    \/ \E c \in Sessions : LoadSingleCount(c) /\ UNCHANGED sideVars
    \/ \E c \in Sessions : InitiateFind(c) /\ UNCHANGED sideVars
    \/ \E c \in Sessions : InitiateFindUser(c) /\ UNCHANGED sideVars
    \/ \E c \in Sessions : InitiateCreate(c) /\ UNCHANGED sideVars
    \/ \E c \in Sessions : DeleteFind(c) /\ UNCHANGED sideVars
    \/ \E c \in Sessions : DeleteDelete(c) /\ UNCHANGED sideVars
    \/ \E c \in Sessions : StatusFind(c) /\ UNCHANGED sideVars
    \/ \E c \in Sessions : StatusUpdate(c) /\ UNCHANGED sideVars
    \/ \E c \in Sessions : StoreFails(c) /\ UNCHANGED sideVars
SpecFault == FaultInit /\ [][FaultNext]_vars

\* Disconnects during the mutations: every session is authenticated and
\* sends one mutating event over its open socket; any socket may close at any
\* await.
DropNext ==
    \/ \E c \in Sessions : Disconnect(c) /\ UNCHANGED <<evVars, convVars, sideVars>>
    \/ \E c \in Sessions : conn[c] = "open" /\ InitiateConversationWithUser(c, "carol") /\ UNCHANGED sideVars
    \/ \E c \in Sessions : conn[c] = "open" /\ DeleteConversation(c, 1) /\ UNCHANGED sideVars
    \/ \E c \in Sessions : conn[c] = "open" /\ ArchiveConversation(c, 1) /\ UNCHANGED sideVars
    \/ \E c \in Sessions : conn[c] = "open" /\ BlockConversation(c, 1) /\ UNCHANGED sideVars
    \/ \E c \in Sessions : conn[c] = "open" /\ UnblockConversation(c, 1) /\ UNCHANGED sideVars
    \/ \E c \in Sessions : InitiateFind(c) /\ UNCHANGED sideVars
    \/ \E c \in Sessions : InitiateFindUser(c) /\ UNCHANGED sideVars
    \/ \E c \in Sessions : InitiateCreate(c) /\ UNCHANGED sideVars
    \/ \E c \in Sessions : DeleteFind(c) /\ UNCHANGED sideVars
    \/ \E c \in Sessions : DeleteDelete(c) /\ UNCHANGED sideVars
    \/ \E c \in Sessions : StatusFind(c) /\ UNCHANGED sideVars
    \/ \E c \in Sessions : StatusUpdate(c) /\ UNCHANGED sideVars
SpecDrop == FaultInit /\ [][DropNext]_vars

\* The pagination of loadConversations alone: a query with any dto over a
\* table with any number of rows matching the caller's filter.
PageInit ==
    /\ GatewayInit /\ ConvInit /\ ReadInit /\ NotifyInit(PlainRoles)
    /\ pg \in {[NoPage EXCEPT !.pc = "findMany", !.total = t, !.limit = l, !.page = p] :
                 t \in 0..MaxTotal, l \in 1..MaxLimit, p \in 1..MaxPage}

\* Promise.all of lines 222-276 awaits findMany and count together: pc is
\* "findMany" while both are pending, "count" once findMany alone has
\* answered, "rows" once count alone has.
\* lines 188-189 and 222-274: findMany with skip and take
PageFindMany ==
    /\ pg.pc \in {"findMany", "rows"}
    /\ pg' = [pg EXCEPT !.pc = IF pg.pc = "findMany" THEN "count" ELSE "done",
                 !.items = Cardinality(findManyRanks(pg.total, skipOf(pg.page, pg.limit),
                                                     pg.limit))]
    /\ UNCHANGED <<gwVars, evVars, convVars, notifyVars, readVars>>

\* lines 275 and 299-307: count and the pagination block of the response
PageCount ==
    /\ pg.pc \in {"findMany", "count"}
    /\ pg' = [pg EXCEPT !.pc = IF pg.pc = "findMany" THEN "rows" ELSE "done", !.reported = pg.total,
                 !.totalPages = totalPages(pg.total, pg.limit)]
    /\ UNCHANGED <<gwVars, evVars, convVars, notifyVars, readVars>>

PageNext == PageFindMany \/ PageCount
SpecPage == PageInit /\ [][PageNext]_vars

\* The unreadCount of one conversation of loadConversations: alice and bob's,
\* with any messages, each with any status row for the requester or none.
Messages == [senderId : {"alice", "bob"}, status : {NoStatus} \cup MessageStatuses]
UnreadInit ==
    /\ GatewayInit /\ ConvInit /\ pg = NoPage /\ NotifyInit(PlainRoles)
    /\ hist = NoHistory /\ srch = NoSearch
    /\ ur \in {[NoUnread EXCEPT !.pc = "findMany", !.user = u, !.msgs = m] :
                 u \in {"alice", "bob"},
                 m \in UNION {[1..n -> Messages] : n \in 0..MaxMsgs}}

\* lines 256-267: the messages the include loads with the conversation
UnreadFindMany ==
    /\ ur.pc \in {"findMany", "rows"}
    /\ ur' = [ur EXCEPT !.pc = IF ur.pc = "findMany" THEN "count" ELSE "transform",
                 !.included = {i \in DOMAIN ur.msgs : isUnread(ur.msgs[i], ur.user)}]
    /\ UNCHANGED <<gwVars, evVars, convVars, pageVars, notifyVars, hist, srch>>

\* line 275: the count of the same Promise.all answers, before findMany or
\* after it; the transform runs once both have answered and does not read it.
UnreadCount ==
    /\ ur.pc \in {"findMany", "count"}
    /\ ur' = [ur EXCEPT !.pc = IF ur.pc = "findMany" THEN "rows" ELSE "transform"]
    /\ UNCHANGED <<gwVars, evVars, convVars, pageVars, notifyVars, hist, srch>>

\* lines 279-293: const unreadCount = conv.messages.length
UnreadTransform ==
    /\ ur.pc = "transform"
    /\ ur' = [ur EXCEPT !.pc = "done", !.unreadCount = Cardinality(ur.included)]
    /\ UNCHANGED <<gwVars, evVars, convVars, pageVars, notifyVars, hist, srch>>

UnreadNext == UnreadFindMany \/ UnreadCount \/ UnreadTransform
SpecUnread == UnreadInit /\ [][UnreadNext]_vars

\* The message page of loadSingleConversation: a history of any length, any
\* dto.page and dto.limit.
HistoryInit ==
    /\ GatewayInit /\ ConvInit /\ pg = NoPage /\ NotifyInit(PlainRoles)
    /\ ur = NoUnread /\ srch = NoSearch
    /\ hist \in {[NoHistory EXCEPT !.pc = "findMany", !.n = n, !.page = p, !.limit = l] :
                   n \in 0..MaxHistory, p \in 1..MaxPage, l \in 1..MaxLimit}

\* Promise.all of lines 375-398 awaits findMany and count together and the
\* store answers them in either order: pc is "findMany" while both are
\* pending, "count" once findMany alone has answered, "rows" once count alone
\* has, "result" once both have.
\* lines 376-396: findMany newest first with skip and take
HistoryFindMany ==
    /\ hist.pc \in {"findMany", "rows"}
    /\ hist' = [hist EXCEPT !.pc = IF hist.pc = "findMany" THEN "count" ELSE "result",
                   !.rows = findManyMessages(hist.n, skipOf(hist.page, hist.limit), hist.limit)]
    /\ UNCHANGED <<gwVars, evVars, convVars, pageVars, notifyVars, ur, srch>>

\* line 397: privateMessage.count({ where: { conversationId } })
HistoryCount ==
    /\ hist.pc \in {"findMany", "count"}
    /\ hist' = [hist EXCEPT !.pc = IF hist.pc = "findMany" THEN "rows" ELSE "result",
                   !.total = hist.n]
    /\ UNCHANGED <<gwVars, evVars, convVars, pageVars, notifyVars, ur, srch>>

\* lines 409-424: the result with the page reversed and the pagination block
HistoryResult ==
    /\ hist.pc = "result"
    /\ hist' = [hist EXCEPT !.pc = "done", !.messages = reverse(hist.rows),
                   !.totalPages = totalPages(hist.total, hist.limit)]
    /\ UNCHANGED <<gwVars, evVars, convVars, pageVars, notifyVars, ur, srch>>

HistoryNext == HistoryFindMany \/ HistoryCount \/ HistoryResult
SpecHistory == HistoryInit /\ [][HistoryNext]_vars

\* loadConversations with a search term over any table of conversations.
Rows == {r \in [initiatorId : ExistingUsers, receiverId : ExistingUsers, lastMessage : Contents] :
            r.initiatorId # r.receiverId}
SearchInit ==
    /\ GatewayInit /\ ConvInit /\ pg = NoPage /\ NotifyInit(PlainRoles)
    /\ ur = NoUnread /\ hist = NoHistory
    /\ srch \in {[NoSearch EXCEPT !.pc = "findMany", !.user = u, !.search = q, !.table = t] :
                   u \in {"alice", "bob"}, q \in Searches,
                   t \in UNION {[1..n -> Rows] : n \in 0..MaxRows}}

\* lines 195-274: the where clause and findMany (first page, default limit)
SearchFindMany ==
    /\ srch.pc \in {"findMany", "rows"}
    /\ srch' = [srch EXCEPT !.pc = IF srch.pc = "findMany" THEN "count" ELSE "done",
                   !.items = findManyPage(
                       {i \in DOMAIN srch.table : whereClause(srch.table[i], srch.user, srch.search)},
                       skipOf(DefaultPage, DefaultLimit), DefaultLimit)]
    /\ UNCHANGED <<gwVars, evVars, convVars, pageVars, notifyVars, ur, hist>>

\* line 275: count({ where: whereClause }), answered before or after findMany
SearchCount ==
    /\ srch.pc \in {"findMany", "count"}
    /\ srch' = [srch EXCEPT !.pc = IF srch.pc = "findMany" THEN "rows" ELSE "done",
                   !.total = Cardinality({i \in DOMAIN srch.table :
                                 whereClause(srch.table[i], srch.user, srch.search)})]
    /\ UNCHANGED <<gwVars, evVars, convVars, pageVars, notifyVars, ur, hist>>

SearchNext == SearchFindMany \/ SearchCount
SpecSearch == SearchInit /\ [][SearchNext]_vars

\* Notifications while sockets connect and disconnect: every await of a
\* notification method is a point where the registry may change.
\* Socket c presents the token of UserOf(c) in the auth payload.
\* notifySingleUser is called for alice (sessions other than the second);
\* notifyMultipleUsers for every list over alice and bob.  Once an unhandled
\* rejection has ended the process nothing more happens in it.
NotifyHandshake(c) == [authorization |-> NoHeader, token |-> UserOf(c)]
NotifyInit0 == GatewayInit /\ ConvInit /\ pg = NoPage /\ ReadInit /\ NotifyInit(PlainRoles)
\* A step of the gateway, and what it does to the Sets the suspended calls hold.
withRegistry(step) ==
    /\ step
    /\ ncall' = held(ncall, clients')
    /\ UNCHANGED <<convVars, pageVars, readVars, roles, notes, nextNote, got>>
NotifyNext ==
    \/ \E c \in Sessions : ProcessRunning /\ withRegistry(Connect(c, NotifyHandshake(c)))
    \/ \E c \in Sessions : ProcessRunning /\ withRegistry(AuthResume(c))
    \/ \E c \in Sessions : ProcessRunning /\ withRegistry(Disconnect(c))
    \/ \E k \in Calls : ProcessRunning /\ NotifySingleUser(k, "alice")
    \/ \E userIds \in [Calls -> {"alice", "bob"}] : ProcessRunning /\ NotifyMultipleUsers(userIds)
    \/ \E k \in Calls : ProcessRunning /\ NotifyAllUsers(k)
    \/ \E k \in Calls : ProcessRunning /\ NotifyPersist(k)
    \/ \E k \in Calls : ProcessRunning /\ NotifyPersistFails(k)
    \/ \E k \in Calls : ProcessRunning /\ NotifyUnhandledRejection(k)
SpecNotify == NotifyInit0 /\ [][NotifyNext]_vars

\* emitToAdmins while sockets connect and disconnect, over a user table with
\* and without admins.
AdminsInit == GatewayInit /\ ConvInit /\ pg = NoPage /\ ReadInit /\ NotifyInit(RoleTables)
AdminsNext ==
    \/ \E c \in Sessions : withRegistry(Connect(c, NotifyHandshake(c)))
    \/ \E c \in Sessions : withRegistry(AuthResume(c))
    \/ \E c \in Sessions : withRegistry(Disconnect(c))
    \/ \E k \in Calls : EmitToAdmins(k)
    \/ \E k \in Calls : EmitToAdminsFound(k)
    \/ \E k \in Calls : EmitToAdminsFails(k)
    \/ \E k \in Calls : NotifyPersist(k)
    \/ \E k \in Calls : NotifyPersistFails(k)
SpecAdmins == AdminsInit /\ [][AdminsNext]_vars

\* -------------------------------------------------------------- properties
\* Socket c is registered: subscribeClient was called for it and
\* unsubscribeClient has not been called for it since.
Registered(c) ==
    \E i \in DOMAIN trace[c] :
        /\ trace[c][i] = "subscribe"
        /\ \A j \in DOMAIN trace[c] : j > i => trace[c][j] # "unsubscribe"

\* Effect x comes before effect y in the trace of socket c.
Before(c, x, y) ==
    \E i, j \in DOMAIN trace[c] : i < j /\ trace[c][i] = x /\ trace[c][j] = y

Occurs(c, x) == \E i \in DOMAIN trace[c] : trace[c][i] = x

\* userId is not a participant of conversation id, or there is no such row.
Outsider(cs, id, userId) ==
    \/ id \notin DOMAIN cs
    \/ (cs[id].initiatorId # userId /\ cs[id].receiverId # userId)

GenericFailure == "Conversation not found or unauthorized"
MutationOps == {"delete", "archive", "block", "unblock"}

\* C1: under every interleaving of connects and disconnects, getClients(user)
\* is exactly the set of sockets of that user that were subscribed and not
\* unsubscribed since; the registry has no entry for anything but a user.
C1_RegistryExact ==
    /\ DOMAIN clients \subseteq UserIds
    /\ \A u \in UserIds :
          getClients(clients, u) = {c \in Conns : data[c].userId = u /\ Registered(c)}

\* Two sockets of one user, one still registered and one unregistered.
C1_Witness ==
    \E c1, c2 \in Conns :
        /\ c1 # c2
        /\ data[c1].userId # Null /\ data[c1].userId = data[c2].userId
        /\ Registered(c1) /\ getClients(clients, data[c1].userId) = {c1}
        /\ Occurs(c2, "unsubscribe")

\* C2: in every reachable state at most one conversation row exists per
\* unordered pair of users, also when initiations overlap.
C2_OneRowPerPair ==
    \A i, j \in DOMAIN convs :
        i # j => {convs[i].initiatorId, convs[i].receiverId}
                   # {convs[j].initiatorId, convs[j].receiverId}

\* C3: an initiate for a pair that directly follows a successful initiate for
\* the same pair (in either order) returns the same id and creates no row.
C3_IdempotentInitiate ==
    lastInit.prev # 0 => (lastInit.conv = lastInit.prev /\ ~lastInit.created)

\* The second initiate came from the other participant.
C3_Witness ==
    /\ lastInit.prev # 0 /\ lastInit.swapped
    /\ lastInit.conv = lastInit.prev
    /\ \E c \in Conns : call[c].pc = "done" /\ call[c].op = "initiate"
                        /\ call[c].user = lastInit.a /\ ret[c].data.conv = lastInit.conv

\* C4: an initiate whose target is the caller fails with an error envelope
\* before any store access, and no row ever joins a user with itself.
C4_SelfRejected ==
    /\ \A c \in Conns :
          (call[c].op = "initiate" /\ call[c].user # Null /\ call[c].target = call[c].user)
             => /\ call[c].pc = "done"
                /\ ret[c] = event("return",
                                  errorResponse("Cannot initiate conversation with yourself"))
                /\ sent[c] = event("error",
                                   errorResponse("Cannot initiate conversation with yourself"))
                /\ ctrace[c] = <<"emit_error">>
    /\ \A i \in DOMAIN convs : convs[i].initiatorId # convs[i].receiverId

\* A self initiate rejected while the store holds rows.
C4_Witness ==
    \E c \in Conns :
        /\ call[c].op = "initiate" /\ call[c].user # Null /\ call[c].target = call[c].user
        /\ ~ret[c].success /\ ret[c].ev = "return"
        /\ DOMAIN convs # {}

\* C5: loadSingleConversation answers a caller who is not a participant with
\* the one generic failure, whether or not the row exists.
C5_Opacity ==
    \A c \in Conns :
        (/\ call[c].op = "loadSingle" /\ call[c].pc = "done" /\ call[c].user # Null
         /\ Outsider(convs, call[c].cid, call[c].user))
          => /\ ret[c] = event("return", errorResponse(GenericFailure))
             /\ sent[c] = event("error", errorResponse(GenericFailure))
             /\ ctrace[c] = <<"db_findFirst", "emit_error">>

\* The row exists and belongs to two other users.
C5_Witness ==
    \E c \in Conns :
        /\ call[c].op = "loadSingle" /\ call[c].pc = "done" /\ call[c].user # Null
        /\ call[c].cid \in DOMAIN convs
        /\ Outsider(convs, call[c].cid, call[c].user)
        /\ ret[c].message = GenericFailure

\* C6: the membership lookup of delete, archive, block and unblock ends the
\* call of a non-participant with the generic failure and leaves the table as
\* it is; a step of these handlers that changes the table is a participant's.
C6_MembershipRechecked ==
    [][\A c \in Conns :
          /\ (/\ call[c].op \in MutationOps /\ call[c].pc = "find"
              /\ call'[c].pc # "find"
              /\ Outsider(convs, call[c].cid, call[c].user))
               => /\ call'[c].pc = "done"
                  /\ ret'[c] = event("return", errorResponse(GenericFailure))
                  /\ sent'[c] = event("error", errorResponse(GenericFailure))
                  /\ convs' = convs
          /\ (/\ call[c].op \in MutationOps /\ call[c].pc \in {"delete", "update"}
              /\ call'[c].pc = "done" /\ convs' # convs)
               => ~Outsider(convs, call[c].cid, call[c].user)]_vars

\* A mutation refused on an existing row of two other users, which is intact.
C6_Witness ==
    \E c \in Conns :
        /\ call[c].op \in MutationOps /\ call[c].pc = "done"
        /\ call[c].cid \in DOMAIN convs
        /\ Outsider(convs, call[c].cid, call[c].user)
        /\ ret[c] = event("return", errorResponse(GenericFailure))
        /\ convs[call[c].cid].status = "ACTIVE"

\* C7: a socket that presented no token, a token that fails verification or
\* has no subject, or the token of an unknown user is never sent the success
\* event and never registered; once its handshake has ended it has been sent
\* an error event and been disconnected.
C7_Rejected ==
    \A c \in Conns :
        (conn[c] # "new" /\ token[c] \notin ExistingUsers)
          => /\ sent[c].ev # "success" /\ recv[c].ev # "success"
             /\ \A u \in DOMAIN clients : c \notin clients[u]
             /\ \A u \in UserIds : c \notin rooms[u]
             /\ ~Occurs(c, "subscribe") /\ ~Occurs(c, "emit_success")
             /\ data[c] = NoData
             /\ hpc[c] = "done"
                  => /\ sent[c].ev = "error" /\ ~sent[c].success
                     /\ conn[c] = "closed"
                     /\ Before(c, "emit_error", "disconnect")

\* A socket whose token names a user the store does not have, rejected after
\* the lookup and closed, the error event received.
C7_Witness ==
    \E c \in Conns :
        /\ token[c] = GhostUser /\ hpc[c] = "done"
        /\ sent[c] = event("error", errorResponse("User not found"))
        /\ recv[c] = sent[c]
        /\ conn[c] = "closed"

\* C8: a handler entered on a socket without userId ends at once, returns
\* the 'Unauthorized' error it emitted, and touches the store neither for a
\* read nor for a write.
C8_Unauthorized ==
    \A c \in Conns :
        (call[c].op # "none" /\ call[c].user = Null)
          => /\ call[c].pc = "done"
             /\ ret[c] = event("return", errorResponse("Unauthorized"))
             /\ ctrace[c] = <<"emit_error">>

\* A handler refused on a socket whose handshake is suspended on the lookup.
C8_Witness ==
    \E c \in Conns :
        /\ hpc[c] = "lookup" /\ data[c].userId = Null
        /\ call[c].op # "none" /\ call[c].pc = "done"
        /\ ret[c].message = "Unauthorized"
        /\ DOMAIN convs # {}

Authenticated(c) == hpc[c] = "done" /\ data[c].userId # Null

\* C10: when a socket closes, it is taken out of its user's registry set if
\* it had reached Authenticated, every other set staying as it is; if it had
\* not, the registry stays as it is.
C10_DisconnectUnregisters ==
    [][\A c \in Conns :
          (conn[c] # "closed" /\ conn'[c] = "closed")
            => IF Authenticated(c)
               THEN /\ c \in getClients(clients, data[c].userId)
                    /\ \A u \in UserIds :
                          getClients(clients', u) =
                             getClients(clients, u) \ (IF u = data[c].userId THEN {c} ELSE {})
               ELSE clients' = clients]_vars

\* One socket unregistered by its disconnect, one closed before it was bound
\* while another socket was registered.
C10_Witness ==
    \E c1, c2, c3 \in Conns :
        /\ Occurs(c1, "unsubscribe") /\ conn[c1] = "closed"
        /\ Occurs(c2, "disconnect_unknown") /\ conn[c2] = "closed"
        /\ c3 \in getClients(clients, data[c3].userId)

\* C17: a block (an archive) by a participant on a conversation that is
\* already BLOCKED (ARCHIVED) succeeds, returns that status and leaves it stored.
C17_StatusIdempotent ==
    \A c \in Conns :
        (/\ call[c].op \in {"block", "archive"} /\ call[c].pc = "done"
         /\ call[c].status = statusOf(call[c].op))
          => /\ ret[c].success
             /\ ret[c].data.conv = call[c].cid
             /\ ret[c].data.status = statusOf(call[c].op)
             /\ call[c].cid \in DOMAIN convs
             /\ convs[call[c].cid].status = statusOf(call[c].op)

\* A block that found the row BLOCKED has succeeded.
C17_Witness ==
    \E c \in Conns :
        /\ call[c].op = "block" /\ call[c].pc = "done"
        /\ call[c].status = "BLOCKED"
        /\ ret[c].success /\ convs[call[c].cid].status = "BLOCKED"

\* C18: an archive, block or unblock that passed the membership lookup on a
\* row that is still there succeeds whatever status it found, and stores
\* ARCHIVED, BLOCKED and ACTIVE respectively.
C18_AnyTransition ==
    \A c \in Conns :
        (/\ call[c].op \in StatusOps /\ call[c].pc = "done"
         /\ call[c].status \in Statuses)
          => /\ ret[c] = event("return", successResponse(
                           [NoPayload EXCEPT !.conv = call[c].cid,
                              !.participant = otherParticipant(convs[call[c].cid], call[c].user),
                              !.status = statusOf(call[c].op)]))
             /\ convs[call[c].cid].status = statusOf(call[c].op)

\* A BLOCKED row has been archived and, on another run, an ARCHIVED one
\* unblocked: here the first.
C18_Witness ==
    \E c \in Conns :
        /\ call[c].op = "archive" /\ call[c].pc = "done"
        /\ call[c].status = "BLOCKED"
        /\ ret[c].success /\ convs[call[c].cid].status = "ARCHIVED"

\* C19: a delete, archive, block or unblock that succeeded has emitted its
\* result to the caller and, after the store mutation, issued a
\* conversation_update push toward the participant who is not the caller.
C19_CounterpartPushed ==
    \A c \in Conns :
        (call[c].op \in MutationOps /\ call[c].pc = "done" /\ ret[c].success)
          => /\ sent[c].success
             /\ push[c].ev = "conversation_update"
             /\ push[c].to \notin {Null, call[c].user}
             /\ \E i, j \in DOMAIN ctrace[c] :
                   /\ i < j
                   /\ ctrace[c][i] \in {"db_delete", "db_update"}
                   /\ ctrace[c][j] = "push"

\* C20: with T matching rows, limit L >= 1 and page p >= 1 the page holds
\* min(L, max(0, T - (p-1)*L)) items, and the response reports total = T and
\* totalPages = the least k with k*L >= T.
C20_Pagination ==
    LET T == pg.total
        L == pg.limit
        left == IF T - (pg.page - 1) * L > 0 THEN T - (pg.page - 1) * L ELSE 0
    IN  /\ pg.pc \in {"count", "done"} => pg.items = (IF L < left THEN L ELSE left)
        /\ pg.pc = "done"
             => /\ pg.reported = T
                /\ pg.totalPages * L >= T
                /\ (pg.totalPages = 0 \/ (pg.totalPages - 1) * L < T)

\* 45 rows with limit 20: page 3 holds 5 items and there are 3 pages.
C20_Witness ==
    /\ pg.pc = "done" /\ pg.total = 45 /\ pg.limit = 20 /\ pg.page = 3
    /\ pg.items = 5 /\ pg.totalPages = 3

\* The calls that created a record, and the sockets bound to a user.
Persisted == {k \in Calls : ncall[k].result = "ok"}
SocketsOf(u) == {c \in Conns : data[c].userId = u}

\* C11: a notifySingleUser whose Set of sockets was not the registry's (the
\* user had no entry when it was called, or lost it since) and whose create
\* succeeded has made one record with recipients {userId}, has emitted to no
\* socket and has ended without error; every record is the one record of a
\* call that succeeded.
C11_OfflineNotification ==
    /\ \A k \in Calls :
          (ncall[k].op = "single" /\ ncall[k].result = "ok" /\ ~ncall[k].live)
            => /\ ncall[k].pc = "done"
               /\ ncall[k].note \in DOMAIN notes
               /\ notes[ncall[k].note].users = {ncall[k].user}
               /\ ncall[k].emitted = {}
               /\ \A c \in Conns : ncall[k].note \notin got[c]
    /\ DOMAIN notes = {ncall[k].note : k \in Persisted}
    /\ Cardinality(DOMAIN notes) = Cardinality(Persisted)

\* The user has no socket at all and the call has succeeded.
C11_Witness ==
    \E k \in Calls :
        /\ ncall[k].op = "single" /\ ncall[k].result = "ok" /\ ~ncall[k].live
        /\ ncall[k].user \notin DOMAIN clients
        /\ SocketsOf(ncall[k].user) = {}
        /\ notes[ncall[k].note].users = {ncall[k].user}

\* C12: a call whose create failed has made no record and emitted to no
\* socket; every notificationId a socket received is the id of a stored
\* record, received from the call that made it.
C12_PersistBeforeDeliver ==
    /\ \A k \in Calls :
          ncall[k].result \in {"failed", "unhandled"}
            => ncall[k].pc = "done" /\ ncall[k].note = 0 /\ ncall[k].emitted = {}
    /\ \A c \in Conns : \A n \in got[c] :
          /\ n \in DOMAIN notes
          /\ \E k \in Persisted : ncall[k].note = n /\ c \in ncall[k].emitted

\* The create failed for a user whose open socket is registered: it got nothing.
C12_Witness ==
    \E k \in Calls, c \in Conns :
        /\ ncall[k].op = "single" /\ ncall[k].result = "failed" /\ ncall[k].live
        /\ conn[c] = "open" /\ c \in getClients(clients, ncall[k].user)
        /\ got[c] = {}

\* C13: every notifySingleUser started by notifyMultipleUsers whose create
\* succeeded has a record of its own with its one recipient, stored whatever
\* became of the others, and has emitted to sockets of that recipient only,
\* the open ones having received it; a call of the batch ends with its
\* record and its delivery or with the rejection of its own create, never
\* because the create of another recipient was rejected.
C13_IndependentRecipients ==
    \A k \in Calls :
        /\ (ncall[k].batch /\ ncall[k].result = "ok")
             => /\ ncall[k].note \in DOMAIN notes
                /\ notes[ncall[k].note].users = {ncall[k].user}
                /\ \A j \in Calls : j # k => ncall[j].note # ncall[k].note
                /\ ncall[k].emitted \subseteq SocketsOf(ncall[k].user)
                /\ \A c \in ncall[k].emitted : conn[c] = "open" => ncall[k].note \in got[c]
        /\ (ncall[k].batch /\ ncall[k].pc = "done")
             => ncall[k].result \in {"ok", "failed", "unhandled"}

\* C14: a notifyAllUsers that found the registry without keys has ended at
\* once, created no record and emitted to no socket; no record is ever stored
\* without a recipient.
C14_NobodyConnected ==
    /\ \A k \in Calls :
          (ncall[k].op = "all" /\ ncall[k].recipients = {})
            => /\ ncall[k].pc = "done" /\ ncall[k].result = "noop"
               /\ ncall[k].note = 0 /\ ncall[k].emitted = {}
    /\ \A n \in DOMAIN notes : notes[n].users # {}

\* notifyAllUsers returned early while nothing was stored or received.
C14_Witness ==
    \E k \in Calls :
        /\ ncall[k].op = "all" /\ ncall[k].result = "noop"
        /\ DOMAIN notes = {} /\ \A c \in Conns : got[c] = {}

\* C15: a socket that received the payload of a notifyAllUsers belongs to a
\* user listed in the record that call created.
C15_ReceiversAreRecipients ==
    \A k \in Calls :
        (ncall[k].op = "all" /\ ncall[k].result = "ok")
          => /\ notes[ncall[k].note].users = ncall[k].recipients
             /\ \A c \in Conns :
                   ncall[k].note \in got[c] => data[c].userId \in notes[ncall[k].note].users

\* C16: emitToAdmins with no ADMIN or SUPER_ADMIN in the store creates no
\* record and emits nothing; otherwise its record lists every such user,
\* connected or not, and only sockets of those users are emitted to or
\* receive its payload.  A call whose store access was rejected has made no
\* record and emitted nothing.
C16_AdminsOnly ==
    LET elevated == {u \in ExistingUsers : roles[u] \in {"ADMIN", "SUPER_ADMIN"}} IN
    \A k \in Calls :
        (ncall[k].op = "admins" /\ ncall[k].pc \in {"create", "done"})
          => /\ ncall[k].result = "failed" => ncall[k].note = 0 /\ ncall[k].emitted = {}
             /\ (ncall[k].pc = "create" \/ ncall[k].result \in {"noop", "ok"})
                  => /\ ncall[k].recipients = elevated
                     /\ elevated = {} => /\ ncall[k].pc = "done" /\ ncall[k].result = "noop"
                                         /\ ncall[k].note = 0 /\ ncall[k].emitted = {}
             /\ ncall[k].result = "ok"
                  => /\ notes[ncall[k].note].users = elevated
                     /\ \A c \in ncall[k].emitted : data[c].userId \in elevated
                     /\ \A c \in Conns :
                           ncall[k].note \in got[c] => data[c].userId \in elevated

\* The record lists alice and carol, who has no socket; alice's socket has
\* received the payload and bob's open registered socket has not.
C16_Witness ==
    \E k \in Calls, c1, c2 \in Conns :
        /\ ncall[k].op = "admins" /\ ncall[k].result = "ok"
        /\ notes[ncall[k].note].users = {"alice", "carol"}
        /\ SocketsOf("carol") = {}
        /\ data[c1].userId = "alice" /\ ncall[k].note \in got[c1]
        /\ data[c2].userId = "bob" /\ conn[c2] = "open" /\ c2 \in getClients(clients, "bob")
        /\ got[c2] = {}

\* C21: the unreadCount of a conversation is the number of its messages that
\* the counterpart sent and that carry a status row for the requester with a
\* status other than READ; a message of the requester is never counted.
C21_UnreadCount ==
    LET counterpart == IF ur.user = "alice" THEN "bob" ELSE "alice"
        unread == {i \in DOMAIN ur.msgs :
                      /\ ur.msgs[i].senderId = counterpart
                      /\ ur.msgs[i].status \in {"SENT", "DELIVERED"}}
    IN  /\ ur.pc \in {"transform", "done"}
             => /\ ur.included = unread
                /\ \A i \in ur.included : ur.msgs[i].senderId # ur.user
        /\ ur.pc = "done" => ur.unreadCount = Cardinality(unread)

\* Three messages of the counterpart, one of them read: unreadCount is 2.
C21_Witness ==
    /\ ur.pc = "done" /\ Len(ur.msgs) = 3
    /\ \A i \in DOMAIN ur.msgs : ur.msgs[i].senderId # ur.user
    /\ Cardinality({i \in DOMAIN ur.msgs : ur.msgs[i].status = "READ"}) = 1
    /\ \A i \in DOMAIN ur.msgs : ur.msgs[i].status # NoStatus
    /\ ur.unreadCount = 2

\* C22: page p with limit L of a history of n messages holds the messages
\* ranked (p-1)*L+1 .. p*L from the newest one, oldest first.
C22_MessagePage ==
    hist.pc = "done"
      => LET first == (hist.page - 1) * hist.limit + 1
             last == hist.page * hist.limit
             ranked == {r \in 1..hist.n : first <= r /\ r <= last}
         IN  /\ {hist.messages[i] : i \in DOMAIN hist.messages}
                   = {hist.n + 1 - r : r \in ranked}
             /\ Len(hist.messages) = Cardinality(ranked)
             /\ \A i, j \in DOMAIN hist.messages :
                   i < j => hist.messages[i] < hist.messages[j]

\* Seven messages, limit 3: page 2 holds the messages created 2nd, 3rd and
\* 4th, in that order.
C22_Witness ==
    /\ hist.pc = "done" /\ hist.n = 7 /\ hist.limit = 3 /\ hist.page = 2
    /\ hist.messages = <<2, 3, 4>>

\* C29: every conversation loadConversations returns has the requester as
\* initiator or receiver, with or without a search term, and the total counts
\* only conversations of the requester that match the term when one is given.
C29_SearchWithinOwn ==
    LET own == {i \in DOMAIN srch.table :
                   srch.table[i].initiatorId = srch.user \/ srch.table[i].receiverId = srch.user}
        hits == {i \in own :
                   srch.search \in {NoText, << >>} \/ matchesSearch(srch.table[i], srch.search)}
    IN  /\ srch.pc \in {"count", "done"} => (srch.items \subseteq own /\ srch.items = hits)
        /\ srch.pc = "done" => srch.total = Cardinality(hits)

\* The term matches the name of a participant of a conversation between two
\* other users, and a conversation of the requester: only the latter is returned.
C29_Witness ==
    /\ srch.pc = "done" /\ srch.search \notin {NoText, << >>}
    /\ \E i, j \in DOMAIN srch.table :
          /\ srch.table[i].initiatorId # srch.user /\ srch.table[i].receiverId # srch.user
          /\ matchesSearch(srch.table[i], srch.search)
          /\ srch.items = {j} /\ srch.total = 1

\* C23: an initiate toward an id that matches no user ends with the error
\* 'Target user not found' after the two lookups and without a create; every
\* row joins two stored users, and an initiate that created a row made it
\* with the caller as initiator and its target as receiver.
C23_TargetMustExist ==
    /\ \A c \in Conns :
          (/\ call[c].op = "initiate" /\ call[c].pc = "done" /\ call[c].user # Null
           /\ call[c].target \notin ExistingUsers)
            => /\ ret[c] = event("return", errorResponse("Target user not found"))
               /\ sent[c] = event("error", errorResponse("Target user not found"))
               /\ ctrace[c] = <<"db_findFirst", "db_findUnique", "emit_error">>
    /\ \A i \in DOMAIN convs :
          convs[i].initiatorId \in ExistingUsers /\ convs[i].receiverId \in ExistingUsers
    /\ \A c \in Conns :
          (/\ call[c].op = "initiate" /\ call[c].pc = "done"
           /\ \E k \in DOMAIN ctrace[c] : ctrace[c][k] = "db_create")
            => /\ ret[c].data.conv \in DOMAIN convs
               /\ convs[ret[c].data.conv].initiatorId = call[c].user
               /\ convs[ret[c].data.conv].receiverId = call[c].target
               /\ call[c].target \in ExistingUsers

\* An initiate toward an unknown id has failed while the store holds a row
\* that another initiate of the same caller created.
C23_Witness ==
    \E c \in Conns :
        /\ call[c].op = "initiate" /\ call[c].pc = "done"
        /\ call[c].target = GhostUser
        /\ ret[c].message = "Target user not found"
        /\ \E i \in DOMAIN convs : convs[i].initiatorId = call[c].user

\* The handler of socket c is suspended on a store access.
Suspended(c) == call[c].pc \notin {"idle", "done"}
\* The store access of c's handler has rejected.
Threw(tr) == \E i \in DOMAIN tr : tr[i] = "db_throw"

\* C24: when the store access a handler is suspended on fails, the handler
\* ends by returning the error envelope it emitted to its own socket, with no
\* success event and no push for that call, and the table, the registry and
\* every other connection with its handler stay as they were.
C24_StoreFailureContained ==
    [][\A c \in Conns :
          (Suspended(c) /\ ~Threw(ctrace[c]) /\ Threw(ctrace'[c]))
            => /\ call'[c].pc = "done"
               /\ ret'[c].ev = "return" /\ ~ret'[c].success /\ ret'[c].message # Null
               /\ sent'[c] = [ret'[c] EXCEPT !.ev = "error"]
               /\ recv'[c] = (IF conn[c] = "open" THEN sent'[c] ELSE recv[c])
               /\ push'[c] = push[c]
               /\ \A i \in DOMAIN ctrace'[c] : ctrace'[c][i] \notin {"emit", "push"}
               /\ convs' = convs /\ nextId' = nextId
               /\ clients' = clients /\ rooms' = rooms /\ conn' = conn /\ data' = data
               /\ \A d \in Conns \ {c} :
                     /\ call'[d] = call[d] /\ ret'[d] = ret[d] /\ push'[d] = push[d]
                     /\ sent'[d] = sent[d] /\ recv'[d] = recv[d]
                     /\ ctrace'[d] = ctrace[d]]_vars

\* The update of a block has failed after its membership lookup, while the
\* handler of another socket is suspended: the row keeps its status and the
\* caller has received the error.
C24_Witness ==
    \E c, d \in Conns :
        /\ c # d /\ Suspended(d)
        /\ call[c].op = "block" /\ call[c].pc = "done"
        /\ ctrace[c] = <<"db_findFirst", "db_throw", "emit_error">>
        /\ recv[c].ev = "error"
        /\ 1 \in DOMAIN convs /\ convs[1].status = "ACTIVE"

\* C30: when a delete, archive, block, unblock or initiate reaches its store
\* mutation after its socket has closed, the mutation is applied as on an open
\* socket and the handler returns its success; the emit toward the closed
\* socket delivers nothing and changes neither the registry nor any socket.
C30_DisconnectDoesNotCancel ==
    [][\A c \in Conns :
          (/\ conn[c] = "closed"
           /\ call[c].pc \in {"create", "delete", "update"} /\ call'[c].pc = "done"
           /\ (call[c].op = "initiate" \/ call[c].cid \in DOMAIN convs))
            => /\ IF call[c].op = "initiate"
                  THEN /\ DOMAIN convs' = DOMAIN convs \cup {nextId}
                       /\ convs'[nextId].initiatorId = call[c].user
                       /\ convs'[nextId].receiverId = call[c].target
                  ELSE IF call[c].op = "delete"
                  THEN DOMAIN convs' = DOMAIN convs \ {call[c].cid}
                  ELSE /\ DOMAIN convs' = DOMAIN convs
                       /\ convs'[call[c].cid].status =
                             (IF call[c].op = "archive" THEN "ARCHIVED"
                              ELSE IF call[c].op = "block" THEN "BLOCKED" ELSE "ACTIVE")
               /\ ret'[c].ev = "return" /\ ret'[c].success
               /\ sent'[c].success
               /\ recv' = recv
               /\ conn' = conn /\ clients' = clients /\ rooms' = rooms /\ data' = data
               /\ trace' = trace]_vars

\* alice's socket closed while her delete was suspended: the row is gone, the
\* push toward bob was issued, and her socket last received the handshake's
\* success, not the delete's.
C30_Witness ==
    \E c \in Conns :
        /\ conn[c] = "closed"
        /\ call[c].op = "delete" /\ call[c].pc = "done" /\ ret[c].success
        /\ 1 \notin DOMAIN convs
        /\ sent[c].data.action = "success"
        /\ recv[c].data.user = data[c].userId /\ recv[c].data.action = Null
        /\ push[c].to = "bob" /\ push[c].data.action = "deleted"

\* C25: every socket the registry holds is open.
C25_RegistryHoldsOpenSockets ==
    \A u \in DOMAIN clients : \A c \in clients[u] : conn[c] = "open"

\* C26: a notifySingleUser whose create succeeds emits to every socket the
\* registry holds for its user at that moment, and the open ones receive the
\* payload with the id of the record.
C26_DeliversToCurrentSet ==
    [][\A k \in Calls :
          (ncall[k].op = "single" /\ ncall[k].pc = "create" /\ ncall'[k].result = "ok")
            => /\ ncall'[k].emitted = getClients(clients, ncall[k].user)
               /\ \A c \in getClients(clients, ncall[k].user) :
                     conn[c] = "open" => ncall'[k].note \in got'[c]]_vars

\* The phases of a socket's handshake.
Connecting(c) == conn[c] = "new"
Authenticating(c) == hpc[c] = "lookup"
Rejected(c) == hpc[c] = "done" /\ data[c].userId = Null
Disconnected(c) == conn[c] = "closed"

\* Every handshake suspended on the user lookup ends.
HandshakeEnds == \A c \in Conns : Authenticating(c) ~> (hpc[c] = "done")
\* A handshake that has ended is Authenticated (bound, registered and sent the
\* success event) or Rejected (sent an error event and disconnected).
HandshakeOutcome ==
    \A c \in Conns :
        hpc[c] = "done"
          => \/ (/\ Authenticated(c) /\ sent[c].ev = "success"
                 /\ Occurs(c, "subscribe"))
             \/ (/\ Rejected(c) /\ sent[c].ev = "error" /\ Disconnected(c))
\* A socket becomes Authenticating only from Connecting, and Authenticated
\* only from Authenticating and never once it is Rejected or Disconnected.
HandshakeOrder ==
    \A c \in Conns :
        /\ (~Authenticating(c) /\ Authenticating(c)') => Connecting(c)
        /\ (~Authenticated(c) /\ Authenticated(c)')
              => (Authenticating(c) /\ ~Rejected(c) /\ ~Disconnected(c))

\* C27: every handshake leaves Authenticating, ends Authenticated or Rejected,
\* and follows Connecting -> Authenticating -> {Authenticated | Rejected} ->
\* Disconnected: a Rejected or Disconnected socket never becomes Authenticated.
C27_HandshakeLifecycle ==
    /\ HandshakeEnds
    /\ [](HandshakeOutcome)
    /\ [][HandshakeOrder]_vars

\* C28: no key of the registry maps to an empty Set; a user has an entry
\* exactly when one of its sockets was subscribed and not unsubscribed since,
\* and getClients of a user without entry is empty.
C28_NoEmptySets ==
    /\ \A u \in DOMAIN clients : clients[u] # {}
    /\ \A u \in UserIds :
          (u \in DOMAIN clients) <=> (\E c \in Conns : data[c].userId = u /\ Registered(c))
    /\ \A u \in UserIds : u \notin DOMAIN clients => getClients(clients, u) = {}

\* A user's last socket was unsubscribed and its entry is gone, while another
\* user still has an entry.
C28_Witness ==
    \E c, d \in Conns :
        /\ Occurs(c, "unsubscribe") /\ data[c].userId \notin DOMAIN clients
        /\ data[d].userId # data[c].userId
        /\ data[d].userId \in DOMAIN clients /\ d \in clients[data[d].userId]

\* C31: a status change whose row was deleted after its membership lookup
\* ends with an error envelope to its own caller and leaves the table as it
\* is; a row only ever appears under the store's next fresh id, so the id of
\* a deleted conversation never comes back.
C31_DeleteThenUpdate ==
    [][/\ \A c \in Conns :
             (/\ call[c].op \in {"archive", "block", "unblock"} /\ call[c].pc = "update"
              /\ call'[c].pc = "done" /\ call[c].cid \notin DOMAIN convs)
               => /\ ret'[c].ev = "return" /\ ~ret'[c].success /\ ret'[c].message # Null
                  /\ sent'[c] = [ret'[c] EXCEPT !.ev = "error"]
                  /\ recv'[c] = (IF conn[c] = "open" THEN sent'[c] ELSE recv[c])
                  /\ push'[c] = push[c]
                  /\ convs' = convs
                  /\ \A d \in Conns \ {c} : sent'[d] = sent[d] /\ recv'[d] = recv[d]
       /\ \A i \in DOMAIN convs' : i \in DOMAIN convs \/ i = nextId
       /\ \A i \in DOMAIN convs : i < nextId
       /\ nextId' >= nextId
       /\ nextId \in DOMAIN convs' => nextId' > nextId]_vars

\* bob deleted the conversation between alice's membership lookup and her
\* update: her block ended with the store's error and the row is still gone.
C31_Witness ==
    \E c, d \in Conns :
        /\ call[d].op = "delete" /\ call[d].pc = "done" /\ ret[d].success
        /\ call[c].op = "block" /\ call[c].pc = "done"
        /\ ctrace[c] = <<"db_findFirst", "db_update", "emit_error">>
        /\ ret[c] = event("return", errorResponse("Record to update not found"))
        /\ recv[c] = event("error", errorResponse("Record to update not found"))
        /\ 1 \notin DOMAIN convs

====
